---------------------------- MODULE Spec2Model ----------------------------
(***************************************************************************)
(* Kids-2D-Games: four canvas mini-games (Rainbow Painter, Balloon Pop,    *)
(* Math Master, Adventure Quest) mounted one at a time by App.             *)
(*                                                                         *)
(* SpecGen models the two content generators, generateProblem (Math        *)
(* Master) and generateChallenge (Adventure Quest), statement by           *)
(* statement: the draw of the challenge, the loop that fills the option    *)
(* list, the shuffle and the publication.                                  *)
(*                                                                         *)
(* Spec models the session of the mounted game: the React state of the     *)
(* component, its refs, the state updates a frame or timer callback has     *)
(* queued and React has not rendered yet, and the pending timeouts.        *)
(***************************************************************************)
EXTENDS Integers, Sequences, FiniteSets, TLC

(***************************************************************************)
(* Bounds of the model.                                                    *)
(***************************************************************************)
\* Operands of Math Master are drawn from 1..min(n, MaxOperand), n being the
\* range of the tier (10, 20, 50, 5).
MaxOperand == 6
\* The random letters of the word puzzle are drawn among the first MaxLetter
\* letters of the alphabet.
MaxLetter == 5
\* Frames of a session for which the countdown is tabulated; a session of
\* GAME_DURATION ends before.
MaxFrames == 3660
\* Single frames are followed from the start of a session for EarlyFrames
\* frames, whenever a frame does more than count down, and from frame
\* IdleFrames on; the frames in between that only count down are followed
\* in one step.
EarlyFrames == 1
IdleFrames == 3598
\* A correct answer is followed, and a treasure is placed within reach, while
\* the score is below MaxScore.
MaxScore == 31
\* Feedback timeouts that may be pending together.
MaxTimers == 2
\* Of the 5 treasures of a level, those that land within the player's reach.
MaxNear == 1
\* Paint blobs in the store together.
MaxEntities == 1
\* Balloons in the store together.
MaxBalloons == 2
\* A click of Balloon Pop is followed while it leaves the score within
\* -MaxPopScore..MaxPopScore,
MaxPopScore == 6
\* and a click or a frame while it leaves lives at -MaxLivesOwed or above.
MaxLivesOwed == 1
\* calls of getRandomBalloonType followed in SpecDraw
MaxDraws == 2

VARIABLES
    \* ---- the generators (SpecGen) ----
    gen,            \* which generator runs: "generateProblem" | "generateChallenge"
    tier,           \* the difficulty the generator's closure holds
    pc,             \* "idle" | "loop" | "done"
    num1, num2,     \* generateProblem's operands
    operator,       \* generateProblem's operator
    challenge,      \* the problem text / challenge text, as a tuple of its parts
    answer,         \* the answer (a number in Math Master, a string in Adventure Quest)
    optionsList,    \* Math Master: the list being filled; Adventure Quest: the candidates
    finalOptions,   \* Adventure Quest: the list being filled
    currentProblem, \* published: setCurrentProblem / setCurrentChallenge
    options,        \* published: setOptions
    \* ---- the session of the mounted game (Spec) ----
    currentGame,    \* App's currentGame: the component that is mounted
    state,          \* the useState values of the last render, by hook name
    refs,           \* the useRef values, by ref name
    queue,          \* setState calls of a frame callback, not rendered yet
    timers,         \* pending setTimeout callbacks, in firing order
    hung,           \* TRUE once a generator loop has stopped terminating
    \* ---- what outlives a component ----
    storage,        \* localStorage: the string stored under each key, NULL for none
    \* ---- the kind table of Balloon Pop (SpecDraw) ----
    draws           \* the calls of getRandomBalloonType so far: draw and kind returned

genVars == <<gen, tier, pc, num1, num2, operator, challenge, answer,
             optionsList, finalOptions, currentProblem, options>>

sessVars == <<currentGame, state, refs, queue, timers, hung>>

vars == <<genVars, sessVars, storage, draws>>

NULL == "null"

\* the keys of localStorage the games use
StorageKeys == {"mathMasterHighScores", "adventureQuestHighScores", "balloon-highScore"}

\* localStorage with none of the keys set
NoStorage == [key \in StorageKeys |-> <<>>]

Min(a, b) == IF a < b THEN a ELSE b
Max(a, b) == IF a > b THEN a ELSE b

Range(s) == {s[i] : i \in DOMAIN s}

\* Math.floor(Math.random() * n)
Rand(n) == 0..(n - 1)

\* Math.floor(Math.random() * n) + 1, the draw of an operand
Operand(n) == 1..Min(n, MaxOperand)

\* Array.prototype.includes
Includes(s, v) == \E i \in DOMAIN s : s[i] = v

\* [list[i], list[j]] = [list[j], list[i]], on 0-based indexes
Swap(list, i, j) ==
    [k \in DOMAIN list |-> IF k = i + 1 THEN list[j + 1]
                           ELSE IF k = j + 1 THEN list[i + 1]
                           ELSE list[k]]

\* for (let i = list.length - 1; i > 0; i--) { j = floor(random * (i + 1)); swap }
\* on a list of 4, with the three draws j3 \in 0..3, j2 \in 0..2, j1 \in 0..1
Shuffle(list, j3, j2, j1) == Swap(Swap(Swap(list, 3, j3), 2, j2), 1, j1)

(***************************************************************************)
(* Math Master: generateProblem                                            *)
(***************************************************************************)
Problem(n1, op, n2, ans) ==
    [num1 |-> n1, operator |-> op, num2 |-> n2, answer |-> ans]

\* EasyProblems without the swap of the operands
EasyProblemsNoSwap ==
    {Problem(a, "+", b, a + b) : a \in Operand(10), b \in Operand(10)}
    \cup
    {Problem(a, "-", b, a - b) : a \in Operand(10), b \in Operand(10)}

\* difficulty === 1: numbers 1-10, '+' or '-', operands swapped when num1 < num2
EasyProblems ==
    {Problem(a, "+", b, a + b) : a \in Operand(10), b \in Operand(10)}
    \cup
    {IF a < b THEN Problem(b, "-", a, b - a) ELSE Problem(a, "-", b, a - b) :
        a \in Operand(10), b \in Operand(10)}

\* difficulty === 2: '+' and '-' on 1-20 (num2 drawn in 1..num1), 'x' on 1-5
MediumProblems ==
    {Problem(a, "+", b, a + b) : a \in Operand(20), b \in Operand(20)}
    \cup
    UNION {{Problem(a, "-", b, a - b) : b \in 1..a} : a \in Operand(20)}
    \cup
    {Problem(a, "*", b, a * b) : a \in Operand(5), b \in Operand(5)}

\* otherwise: '+' and '-' on 1-50, 'x' on 1-10, '/' with num1 = num2 * answer
HardProblems ==
    {Problem(a, "+", b, a + b) : a \in Operand(50), b \in Operand(50)}
    \cup
    UNION {{Problem(a, "-", b, a - b) : b \in 1..a} : a \in Operand(50)}
    \cup
    {Problem(a, "*", b, a * b) : a \in Operand(10), b \in Operand(10)}
    \cup
    {Problem(b * q, "/", b, q) : b \in Operand(10), q \in Operand(10)}

Problems(d) ==
    IF d = 1 THEN EasyProblems
    ELSE IF d = 2 THEN MediumProblems
    ELSE HardProblems

\* the number of offsets the option loop draws from, and the shift it applies
VariantDraws(d) == IF d = 1 THEN 5 ELSE IF d = 2 THEN 8 ELSE 10
VariantShift(d) == IF d = 1 THEN 2 ELSE IF d = 2 THEN 4 ELSE 5

\* variant = answer + Math.floor(Math.random() * draws) - shift
Variant(d, ans, r) == ans + r - VariantShift(d)

\* PushVariant without the duplicate test
PushVariantNoIncludes(list, variant) ==
    IF variant > 0 THEN Append(list, variant) ELSE list

\* if (variant > 0 && !optionsList.includes(variant)) optionsList.push(variant)
PushVariant(list, variant) ==
    IF variant > 0 /\ ~Includes(list, variant) THEN Append(list, variant) ELSE list

GenerateProblemDraw ==
    /\ gen = "generateProblem"
    /\ pc = "idle"
    /\ \E p \in Problems(tier) :
        /\ num1' = p.num1
        /\ num2' = p.num2
        /\ operator' = p.operator
        /\ answer' = p.answer
        /\ challenge' = <<ToString(p.num1), p.operator, ToString(p.num2)>>
        /\ optionsList' = <<p.answer>>
    /\ pc' = "loop"
    /\ UNCHANGED <<sessVars, storage, draws>>
    /\ UNCHANGED <<gen, tier, finalOptions, currentProblem, options>>

GenerateProblemLoop ==
    /\ gen = "generateProblem"
    /\ pc = "loop"
    /\ Len(optionsList) < 4
    /\ \E r \in Rand(VariantDraws(tier)) :
        optionsList' = PushVariant(optionsList, Variant(tier, answer, r))
    /\ UNCHANGED <<sessVars, storage, draws>>
    /\ UNCHANGED <<gen, tier, pc, num1, num2, operator, challenge, answer,
                   finalOptions, currentProblem, options>>

GenerateProblemPublish ==
    /\ gen = "generateProblem"
    /\ pc = "loop"
    /\ Len(optionsList) >= 4
    /\ \E j3 \in Rand(4), j2 \in Rand(3), j1 \in Rand(2) :
        optionsList' = Shuffle(optionsList, j3, j2, j1)
    /\ currentProblem' = [text |-> challenge, answer |-> answer]
    /\ options' = optionsList'
    /\ pc' = "done"
    /\ UNCHANGED <<sessVars, storage, draws>>
    /\ UNCHANGED <<gen, tier, num1, num2, operator, challenge, answer, finalOptions>>

(***************************************************************************)
(* Adventure Quest: generateChallenge                                      *)
(***************************************************************************)
\* The glyphs of the source are written by name: the triangle, square, circle,
\* down-triangle and star shapes, and the key, gem, orb and crown items.
PatternShapes == <<"triangle", "circle", "square", "down-triangle">>
Patterns == <<<<"triangle", "square", "circle">>,
              <<"circle", "triangle", "square">>,
              <<"square", "circle", "triangle">>>>
Colors == <<"Red", "Blue", "Green", "Yellow">>
Shapes == <<"triangle", "square", "circle", "star">>
Items == <<"key", "gem", "orb", "crown">>
Objects == <<"Key", "Crown", "Gem", "Coin">>
Words == <<<<"T", "R", "E", "A", "S", "U", "R", "E">>,
           <<"A", "D", "V", "E", "N", "T", "U", "R", "E">>,
           <<"E", "X", "P", "L", "O", "R", "E">>,
           <<"J", "O", "U", "R", "N", "E", "Y">>>>
Alphabet == <<"A", "B", "C", "D", "E", "F", "G", "H", "I", "J", "K", "L", "M",
              "N", "O", "P", "Q", "R", "S", "T", "U", "V", "W", "X", "Y", "Z">>

\* String.fromCharCode(65 + Math.floor(Math.random() * 26))
RandomLetters == {Alphabet[r + 1] : r \in Rand(Min(26, MaxLetter))}

\* list.map(n => n.toString())
MapToString(list) == [i \in DOMAIN list |-> ToString(list[i])]

\* list.filter(n => n > 0)
FilterPositive(list) == SelectSeq(list, LAMBDA n : n > 0)

\* Array.from(new Set(list)): the first occurrence of each value, in order
RECURSIVE Dedupe(_)
Dedupe(list) ==
    IF list = <<>> THEN <<>>
    ELSE LET front == Dedupe(SubSeq(list, 1, Len(list) - 1))
             last == list[Len(list)]
         IN  IF Includes(front, last) THEN front ELSE Append(front, last)

\* list.slice(0, 4)
Slice4(list) == SubSeq(list, 1, Min(4, Len(list)))

Challenge(kind, text, ans, list) ==
    [archetype |-> kind, challenge |-> text, answer |-> ans, optionsList |-> list]

\* difficulty === 1: pattern recognition, simple counting, colour matching
EasyChallenges ==
    {Challenge("pattern", <<"Complete the pattern">> \o Patterns[i], "triangle",
               PatternShapes) : i \in 1..Len(Patterns)}
    \cup
    {Challenge("counting", <<"How many treasure chests?", ToString(count)>>, ToString(count),
               MapToString(FilterPositive(<<count, count + 1, count - 1, count + 2>>))) :
        count \in {r + 3 : r \in Rand(5)}}
    \cup
    {Challenge("colour", <<"What color is the gem?", Colors[i]>>, Colors[i], Colors) :
        i \in 1..Len(Colors)}

\* the shape pattern: "? " at patternAnswer, a random shape elsewhere
ShapePatterns ==
    {[i \in 1..4 |-> IF i = q + 1 THEN "?" ELSE Shapes[f[i]]] :
        q \in Rand(4), f \in [1..4 -> 1..Len(Shapes)]}

\* difficulty === 2: simple math, shape patterns, memory
MediumChallenges ==
    {Challenge("addition", <<ToString(a), "+", ToString(b)>>, ToString(a + b),
               MapToString(<<a + b, a + b + 1, a + b - 1, a + b + 2>>)) :
        a \in {r + 1 : r \in Rand(5)}, b \in {r + 1 : r \in Rand(5)}}
    \cup
    {Challenge("shape", <<"What's missing?">> \o p, Shapes[i], Shapes) :
        p \in ShapePatterns, i \in 1..Len(Shapes)}
    \cup
    {Challenge("memory", <<"Remember">> \o sequence, sequence[2],
               Slice4(Dedupe(Items \o <<sequence[2]>>))) :
        sequence \in {<<Items[i], Items[j], Items[k]>> :
                        i \in 1..Len(Items), j \in 1..Len(Items), k \in 1..Len(Items)}}

\* `${word.substring(0, i)}_${word.substring(i + 1)}`, i 0-based
Blanked(word, i) == SubSeq(word, 1, i) \o <<"_">> \o SubSeq(word, i + 2, Len(word))

\* otherwise: subtraction, word puzzles, logic puzzles
HardChallenges ==
    {Challenge("subtraction", <<ToString(a), "-", ToString(b)>>, ToString(a - b),
               MapToString(<<a - b, a - b + 2, a - b - 1, a - b + 1>>)) :
        a \in {r + 5 : r \in Rand(10)}, b \in {r + 1 : r \in Rand(5)}}
    \cup
    UNION {{Challenge("word", <<"Complete">> \o Blanked(Words[w], i), Words[w][i + 1],
                      Slice4(Dedupe(<<Words[w][i + 1], l1, l2, l3>>))) :
                i \in Rand(Len(Words[w])),
                l1 \in RandomLetters, l2 \in RandomLetters, l3 \in RandomLetters} :
            w \in 1..Len(Words)}
    \cup
    {Challenge("logic", <<"what color key for the blue door?", Colors[c], Objects[o]>>,
               "Blue", Colors) :
        c \in 1..Len(Colors), o \in 1..Len(Objects)}

Challenges(d) ==
    IF d = 1 THEN EasyChallenges
    ELSE IF d = 2 THEN MediumChallenges
    ELSE HardChallenges

\* One pass of the while loop over finalOptions, with the draw r (an index into
\* optionsList). optionsList is a string[] on every path (the numeric archetypes
\* go through toString), so `typeof optionsList[0] === 'number'` is false and
\* the pass takes the other branch:
\*   the drawn option, or `continue` when finalOptions holds it already;
\*   if (variant !== answer && !finalOptions.includes(variant)) push
LoopPass(final, list, ans, r) ==
    LET randomOption == list[r + 1]
    IN  IF Includes(final, randomOption) THEN final
        ELSE IF randomOption # ans /\ ~Includes(final, randomOption)
             THEN Append(final, randomOption)
             ELSE final

GenerateChallengeDraw ==
    /\ gen = "generateChallenge"
    /\ pc = "idle"
    /\ \E c \in Challenges(tier) :
        /\ operator' = c.archetype
        /\ challenge' = c.challenge
        /\ answer' = c.answer
        /\ optionsList' = c.optionsList
        /\ finalOptions' = <<c.answer>>
    /\ pc' = "loop"
    /\ UNCHANGED <<sessVars, storage, draws>>
    /\ UNCHANGED <<gen, tier, num1, num2, currentProblem, options>>

GenerateChallengeLoop ==
    /\ gen = "generateChallenge"
    /\ pc = "loop"
    /\ Len(finalOptions) < 4
    /\ \E r \in Rand(Len(optionsList)) :
        finalOptions' = LoopPass(finalOptions, optionsList, answer, r)
    /\ UNCHANGED <<sessVars, storage, draws>>
    /\ UNCHANGED <<gen, tier, pc, num1, num2, operator, challenge, answer,
                   optionsList, currentProblem, options>>

GenerateChallengePublish ==
    /\ gen = "generateChallenge"
    /\ pc = "loop"
    /\ Len(finalOptions) >= 4
    /\ \E j3 \in Rand(4), j2 \in Rand(3), j1 \in Rand(2) :
        finalOptions' = Shuffle(finalOptions, j3, j2, j1)
    /\ currentProblem' = [text |-> challenge, answer |-> answer]
    /\ options' = finalOptions'
    /\ pc' = "done"
    /\ UNCHANGED <<sessVars, storage, draws>>
    /\ UNCHANGED <<gen, tier, num1, num2, operator, challenge, answer, optionsList>>

(***************************************************************************)
(* The generators' claims                                                  *)
(***************************************************************************)
Count(list, v) == Cardinality({i \in DOMAIN list : list[i] = v})

IsPermutation(s, t) ==
    /\ Len(s) = Len(t)
    /\ \A v \in Range(s) \cup Range(t) : Count(s, v) = Count(t, v)

\* the list the option loop has filled when the shuffle starts
Filled == IF gen = "generateProblem" THEN optionsList ELSE finalOptions

\* parseInt of the decimal strings toString produces here
ParseInt(str) == CHOOSE n \in -10..200 : ToString(n) = str

PublishedShape ==
    pc = "done" =>
        /\ Len(options) = 4
        /\ Cardinality(Range(options)) = 4
        /\ Count(options, currentProblem.answer) = 1

ShufflePermutes ==
    (pc = "loop" /\ pc' = "done") => IsPermutation(Filled, options')

\* C1: every challenge either generator publishes has exactly 4 options,
\* pairwise distinct, exactly one of them equal to the challenge's answer, and
\* the final shuffle only permutes the 4 options the loop has filled.
C1_FourDistinctOptions == []PublishedShape /\ [][ShufflePermutes]_vars

\* C1 witness: Math Master has published a tier-3 challenge whose answer the
\* shuffle has moved to the last place.
C1_Witness ==
    /\ gen = "generateProblem"
    /\ pc = "done"
    /\ tier = 3
    /\ options[4] = currentProblem.answer

\* the values the option loop of generateProblem can draw for a tier and answer
VariantRange(d, ans) == {Variant(d, ans, r) : r \in Rand(VariantDraws(d))}

\* those of them the loop accepts as distractors
Distractors(d, ans) == {v \in VariantRange(d, ans) : v > 0 /\ v # ans}

\* C2: generateProblem terminates for every tier and answer: the perturbation
\* range is answer-2..answer+2 at tier 1, answer-4..answer+3 at tier 2 and
\* answer-5..answer+4 at tier 3, and it holds at least 3 distinct values that
\* are positive and different from the answer.
C2_ProblemLoopTerminates ==
    (gen = "generateProblem" /\ pc = "loop") =>
        /\ VariantRange(tier, answer) =
              IF tier = 1 THEN (answer - 2)..(answer + 2)
              ELSE IF tier = 2 THEN (answer - 4)..(answer + 3)
              ELSE (answer - 5)..(answer + 4)
        /\ Cardinality(Distractors(tier, answer)) >= 3

\* C3: generateChallenge terminates for every tier and archetype: the
\* candidate list holds at least 3 distinct values other than the answer.
C3_ChallengeLoopTerminates ==
    (gen = "generateChallenge" /\ pc = "loop") =>
        Cardinality(Range(optionsList) \ {answer}) >= 3

NumericArchetypes == {"counting", "addition", "subtraction"}

\* C4: every numeric option offered to the player, the answer included, is
\* strictly greater than 0, in Math Master and in the counting, addition and
\* subtraction challenges of Adventure Quest.
C4_NumericOptionsPositive ==
    pc = "done" =>
        /\ gen = "generateProblem" =>
              \A i \in DOMAIN options : options[i] > 0
        /\ (gen = "generateChallenge" /\ operator \in NumericArchetypes) =>
              \A i \in DOMAIN options : ParseInt(options[i]) > 0

\* the integer result of the problem the text displays
Eval(text) ==
    LET a == ParseInt(text[1])
        b == ParseInt(text[3])
    IN  IF text[2] = "+" THEN a + b
        ELSE IF text[2] = "-" THEN a - b
        ELSE IF text[2] = "*" THEN a * b
        ELSE a \div b

\* C5: the stored answer of every Math Master problem is the exact integer
\* result of the displayed problem; a subtraction has num1 >= num2 and so no
\* negative answer; a division has num2 >= 1 and num1 = num2 * answer, a
\* quotient with zero remainder.
C5_AnswerIsExactResult ==
    (gen = "generateProblem" /\ pc # "idle") =>
        /\ challenge = <<ToString(num1), operator, ToString(num2)>>
        /\ answer = Eval(challenge)
        /\ operator = "-" => (num1 >= num2 /\ answer >= 0)
        /\ operator = "/" =>
              (num2 >= 1 /\ num1 = num2 * answer /\ num1 % num2 = 0)
        /\ pc = "done" => currentProblem = [text |-> challenge, answer |-> answer]

\* C5 witness: a division with a divisor and a quotient above 1 is published.
C5_Witness ==
    /\ gen = "generateProblem"
    /\ pc = "done"
    /\ operator = "/"
    /\ num2 > 1
    /\ currentProblem.answer > 1

GenInit ==
    /\ gen \in {"generateProblem", "generateChallenge"}
    /\ tier \in 1..3
    /\ pc = "idle"
    /\ num1 = 0
    /\ num2 = 0
    /\ operator = NULL
    /\ challenge = <<>>
    /\ answer = NULL
    /\ optionsList = <<>>
    /\ finalOptions = <<>>
    /\ currentProblem = NULL
    /\ options = <<>>
    /\ currentGame = NULL
    /\ state = NULL
    /\ refs = NULL
    /\ queue = <<>>
    /\ timers = <<>>
    /\ hung = FALSE
    /\ storage = NoStorage
    /\ draws = <<>>

GenNext ==
    \/ GenerateProblemDraw
    \/ GenerateProblemLoop
    \/ GenerateProblemPublish
    \/ GenerateChallengeDraw
    \/ GenerateChallengeLoop
    \/ GenerateChallengePublish

SpecGen == GenInit /\ [][GenNext]_vars

(***************************************************************************)
(* The countdown of the timed games.  timeLeftRef is a JavaScript number,  *)
(* an IEEE-754 double.  Every value it takes here is a multiple of 2^-58   *)
(* below 2^6, held as an integer count of 2^-58 in three limbs of 22 bits  *)
(* with a sign; a subtraction is exact and then rounded to 53 significant  *)
(* bits, ties to even, as the hardware does.                               *)
(***************************************************************************)
LimbBits == 22
Limb == 2^LimbBits

Double(neg, hi, mid, lo) == [neg |-> neg, hi |-> hi, mid |-> mid, lo |-> lo]

GAME_DURATION == 60000

\* GAME_DURATION / 1000, a whole number of seconds n = n * 2^14 * 2^44 * 2^-58
GameSeconds == Double(FALSE, (GAME_DURATION \div 1000) * 2^14, 0, 0)

\* 1 / 60 rounded to a double is 4803839602528529 * 2^-58
\*   = (273 * 2^44 + 279620 * 2^22 + 1118481) * 2^-58
OneSixtieth == Double(FALSE, 273, 279620, 1118481)

\* |x| >= |y|
MagnitudeGE(x, y) ==
    \/ x.hi > y.hi
    \/ x.hi = y.hi /\ x.mid > y.mid
    \/ x.hi = y.hi /\ x.mid = y.mid /\ x.lo >= y.lo

\* |x| - |y| for |x| >= |y|, limb by limb with borrow
MagnitudeSub(x, y, neg) ==
    LET lo == x.lo - y.lo
        b1 == IF lo < 0 THEN 1 ELSE 0
        mid == x.mid - y.mid - b1
        b2 == IF mid < 0 THEN 1 ELSE 0
    IN  Double(neg, x.hi - y.hi - b2, mid + b2 * Limb, lo + b1 * Limb)

\* number of bits of n, 0 <= n < Limb
Bits(n) == CHOOSE k \in 0..LimbBits : n < 2^k /\ (k = 0 \/ n >= 2^(k - 1))

BitLength(x) ==
    IF x.hi > 0 THEN 2 * LimbBits + Bits(x.hi)
    ELSE IF x.mid > 0 THEN LimbBits + Bits(x.mid)
    ELSE Bits(x.lo)

\* round to 53 significant bits, ties to even; the bits dropped lie in lo
RoundDouble(x) ==
    LET k == Max(0, BitLength(x) - 53)
        rem == x.lo % 2^k
        base == x.lo - rem
        half == 2^k \div 2
        odd == (base \div 2^k) % 2 = 1
        up == k > 0 /\ (rem > half \/ (rem = half /\ odd))
        lo == base + (IF up THEN 2^k ELSE 0)
        c1 == IF lo >= Limb THEN 1 ELSE 0
        mid == x.mid + c1
        c2 == IF mid >= Limb THEN 1 ELSE 0
    IN  Double(x.neg, x.hi + c2, mid - c2 * Limb, lo - c1 * Limb)

\* |x| + |y|, limb by limb with carry
MagnitudeAdd(x, y, neg) ==
    LET lo == x.lo + y.lo
        c1 == IF lo >= Limb THEN 1 ELSE 0
        mid == x.mid + y.mid + c1
        c2 == IF mid >= Limb THEN 1 ELSE 0
    IN  Double(neg, x.hi + y.hi + c2, mid - c2 * Limb, lo - c1 * Limb)

\* x - y for doubles x and y, y > 0
DoubleSub(x, y) ==
    IF x.neg THEN RoundDouble(MagnitudeAdd(x, y, TRUE))
    ELSE IF MagnitudeGE(x, y) THEN RoundDouble(MagnitudeSub(x, y, FALSE))
    ELSE RoundDouble(MagnitudeSub(y, x, TRUE))

IsZero(x) == x.hi = 0 /\ x.mid = 0 /\ x.lo = 0

\* x <= 0
NotPositive(x) == x.neg \/ IsZero(x)

\* timeLeftRef.current -= 1 / 60
Tick(x) == DoubleSub(x, OneSixtieth)

\* the values of timeLeftRef after 1, 2, ..., n calls of Tick on x
RECURSIVE TickValues(_, _)
TickValues(x, n) ==
    IF n = 0 THEN <<>>
    ELSE IF n = 1 THEN <<Tick(x)>>
    ELSE LET first == TickValues(x, n \div 2)
         IN  first \o TickValues(first[Len(first)], n - n \div 2)

\* Countdown[i + 1] is timeLeftRef after i frames of a session
Countdown == <<GameSeconds>> \o TickValues(GameSeconds, MaxFrames)

\* Math.ceil(x), for |x| < 64
Ceil(x) ==
    LET whole == x.hi \div 2^14
        fraction == x.hi % 2^14 # 0 \/ x.mid # 0 \/ x.lo # 0
    IN  IF x.neg THEN 0 - whole
        ELSE IF fraction THEN whole + 1 ELSE whole

\* frames after which the model follows single frames
SingleFrames == (0..(EarlyFrames - 1)) \cup (IdleFrames..MaxFrames)

\* the values of timeLeftRef from which a single frame is followed
SingleFrameValues == {Countdown[i + 1] : i \in SingleFrames}

\* the values of timeLeftRef in the first EarlyFrames frames
EarlyValues == {Countdown[i + 1] : i \in 0..(EarlyFrames - 1)}

\* the values of timeLeftRef from which the frames up to IdleFrames are
\* followed in one step: those of the first 240 frames, all above 0
IdleStartValues == {Countdown[i + 1] : i \in 0..240}

(***************************************************************************)
(* React.  A setState call is queued and takes effect at the next render.  *)
(* React renders before an event handler (click, key, touch) returns       *)
(* control to the page; the calls of a requestAnimationFrame callback wait *)
(* in `queue` for a render of their own (Commit), and an event handler     *)
(* that runs before it sees the state of the last render in its closure    *)
(* and the refs as they are.  The calls of a timeout, which touch no ref,  *)
(* are taken with the render that follows them.                            *)
(***************************************************************************)
\* setX(v)
Set(hook, v) == [hook |-> hook, op |-> "set", arg |-> v]

\* setX(prev => prev + v)
Add(hook, v) == [hook |-> hook, op |-> "add", arg |-> v]

\* the streak counted without its setMaxStreak
StreakOnly(hook, maxHook, max) == [hook |-> hook, op |-> "add", arg |-> 1]

\* setCorrectStreak(prev => { const n = prev + 1; if (n > maxStreak) setMaxStreak(n); return n })
\* (and the same on combo / maxCombo), with the maxStreak of the closure
Streak(hook, maxHook, max) == [hook |-> hook, op |-> "streak", arg |-> max, maxHook |-> maxHook]

ApplyUpdate(s, u) ==
    IF u.op = "set" THEN [s EXCEPT ![u.hook] = u.arg]
    ELSE IF u.op = "add" THEN [s EXCEPT ![u.hook] = @ + u.arg]
    ELSE LET n == s[u.hook] + 1
         IN  [s EXCEPT ![u.hook] = n,
                       ![u.maxHook] = IF n > u.arg THEN n ELSE @]

\* the state of the render that processes the queued calls q on state s
RECURSIVE Render(_, _)
Render(s, q) == IF q = <<>> THEN s ELSE Render(ApplyUpdate(s, Head(q)), Tail(q))

(***************************************************************************)
(* Math Master: the session                                                *)
(***************************************************************************)
\* The session keeps of a problem or challenge the tier it was generated
\* for; tier 0 stands for null, no problem yet.
NoProblem == [tier |-> 0]

\* the useState initial values
MathState ==
    [gameState |-> "waiting", score |-> 0, timeLeft |-> GAME_DURATION \div 1000,
     currentProblem |-> NoProblem, difficulty |-> 1, correctStreak |-> 0,
     maxStreak |-> 0]

\* the useRef initial values
MathRefs == [gameStateRef |-> "waiting", timeLeftRef |-> GameSeconds]

\* whether the option loop of generateProblem can fail to terminate at tier d
MathHangs ==
    [d \in 1..3 |-> \E p \in Problems(d) : Cardinality(Distractors(d, p.answer)) < 3]

\* the outcomes of a call of generateProblem whose closure holds difficulty d
GenerateProblem(d) ==
    {[hangs |-> FALSE, problem |-> [tier |-> d]]}
        \cup (IF MathHangs[d] THEN {[hangs |-> TRUE, problem |-> NoProblem]} ELSE {})

\* the render of the queued calls followed by `updates`, and its effects:
\* generateProblem when gameState is "playing" and gameState or difficulty
\* has changed, gameStateRef.current = gameState when gameState has changed
MathRender(updates, refs1, timers1) ==
    LET rendered == Render(state, queue \o updates)
        phaseChanged == rendered.gameState # state.gameState
        generates == /\ rendered.gameState = "playing"
                     /\ phaseChanged \/ rendered.difficulty # state.difficulty
    IN  /\ queue' = <<>>
        /\ timers' = timers1
        /\ refs' = IF phaseChanged
                   THEN [refs1 EXCEPT !.gameStateRef = rendered.gameState]
                   ELSE refs1
        /\ IF generates
           THEN \E o \in GenerateProblem(rendered.difficulty) :
                    /\ hung' = o.hangs
                    /\ state' = IF o.hangs THEN rendered
                                ELSE [rendered EXCEPT !.currentProblem = o.problem]
           ELSE hung' = FALSE /\ state' = rendered

\* startGame without its setScore(0)
MathStartGameUpdatesKeepScore ==
    <<Set("correctStreak", 0), Set("maxStreak", 0),
      Set("difficulty", 1), Set("timeLeft", GAME_DURATION \div 1000),
      Set("gameState", "playing")>>

MathStartGameUpdates ==
    <<Set("score", 0), Set("correctStreak", 0), Set("maxStreak", 0),
      Set("difficulty", 1), Set("timeLeft", GAME_DURATION \div 1000),
      Set("gameState", "playing")>>

MathStartGame ==
    MathRender(MathStartGameUpdates,
               [refs EXCEPT !.timeLeftRef = GameSeconds, !.gameStateRef = "playing"],
               timers)

\* handleCanvasClick while waiting or gameOver: startGame
MathClickStart ==
    /\ currentGame = "math" /\ ~hung
    /\ refs.gameStateRef \in {"waiting", "gameOver"}
    /\ MathStartGame
    /\ UNCHANGED <<genVars, storage, draws, currentGame>>

\* the "Reset Game" button, rendered while gameState is "playing": startGame
MathResetButton ==
    /\ currentGame = "math" /\ ~hung
    /\ state.gameState = "playing"
    /\ MathStartGame
    /\ UNCHANGED <<genVars, storage, draws, currentGame>>

\* checkAnswer with a wrong answer that also forgets the longest streak
MathClickOptionForgetsPeak(correct) ==
    /\ currentGame = "math" /\ ~hung
    /\ refs.gameStateRef = "playing"
    /\ state.currentProblem # NoProblem
    /\ Len(timers) < MaxTimers
    /\ correct => state.score < MaxScore
    /\ MathRender(IF correct
                  THEN <<Add("score", state.difficulty * 5),
                         Streak("correctStreak", "maxStreak", state.maxStreak)>>
                  ELSE <<Set("correctStreak", 0), Set("maxStreak", 0)>>,
                  refs,
                  Append(timers, [difficulty |-> state.difficulty]))
    /\ UNCHANGED <<genVars, storage, draws, currentGame>>

\* handleCanvasClick while playing, on the circle of an option: checkAnswer
MathClickOption(correct) ==
    /\ currentGame = "math" /\ ~hung
    /\ refs.gameStateRef = "playing"
    /\ state.currentProblem # NoProblem
    /\ Len(timers) < MaxTimers
    /\ correct => state.score < MaxScore
    /\ MathRender(IF correct
                  THEN <<Add("score", state.difficulty * 5),
                         Streak("correctStreak", "maxStreak", state.maxStreak)>>
                  ELSE <<Set("correctStreak", 0)>>,
                  refs,
                  Append(timers, [difficulty |-> state.difficulty]))
    /\ UNCHANGED <<genVars, storage, draws, currentGame>>

\* the timeout of checkAnswer: generateProblem of the render that set it
MathFeedbackTimeout ==
    /\ currentGame = "math" /\ ~hung
    /\ timers # <<>>
    /\ queue = <<>>
    /\ \E o \in GenerateProblem(Head(timers).difficulty) :
           /\ hung' = o.hangs
           /\ state' = IF o.hangs THEN state
                       ELSE [state EXCEPT !.currentProblem = o.problem]
    /\ timers' = Tail(timers)
    /\ UNCHANGED <<genVars, storage, draws, currentGame, refs, queue>>

\* setDifficulty of update, on the score and difficulty of its closure
DifficultyUpdates ==
    IF state.score >= 30 /\ state.difficulty < 3 THEN <<Set("difficulty", 3)>>
    ELSE IF state.score >= 15 /\ state.difficulty < 2 THEN <<Set("difficulty", 2)>>
    ELSE <<>>

\* update, called by gameLoop on an animation frame
MathUpdate ==
    /\ currentGame = "math" /\ ~hung
    /\ queue = <<>>
    /\ refs.gameStateRef = "playing"
    /\ refs.timeLeftRef \in SingleFrameValues \/ DifficultyUpdates # <<>>
    /\ LET t == Tick(refs.timeLeftRef)
       IN  IF NotPositive(t)
           THEN /\ refs' = [refs EXCEPT !.timeLeftRef = t, !.gameStateRef = "gameOver"]
                /\ queue' = <<Set("timeLeft", Ceil(t)), Set("gameState", "gameOver")>>
           ELSE /\ refs' = [refs EXCEPT !.timeLeftRef = t]
                /\ queue' = <<Set("timeLeft", Ceil(t))>> \o DifficultyUpdates
    /\ UNCHANGED <<genVars, storage, draws, currentGame, state, timers, hung>>

\* the frames up to frame IdleFrames, each rendered, in which update changes
\* the countdown only
MathIdleFrames ==
    /\ currentGame = "math" /\ ~hung
    /\ queue = <<>> /\ timers = <<>>
    /\ refs.gameStateRef = "playing"
    /\ DifficultyUpdates = <<>>
    /\ refs.timeLeftRef \in IdleStartValues
    /\ refs' = [refs EXCEPT !.timeLeftRef = Countdown[IdleFrames + 1]]
    /\ state' = [state EXCEPT !.timeLeft = Ceil(Countdown[IdleFrames + 1])]
    /\ UNCHANGED <<genVars, storage, draws, currentGame, queue, timers, hung>>

\* React renders the calls a frame or a timeout has queued
MathCommit ==
    /\ currentGame = "math" /\ ~hung
    /\ queue # <<>>
    /\ MathRender(<<>>, refs, timers)
    /\ UNCHANGED <<genVars, storage, draws, currentGame>>

(***************************************************************************)
(* Adventure Quest: the session                                            *)
(***************************************************************************)
CANVAS_WIDTH == 400
CANVAS_HEIGHT == 600

\* { x: CANVAS_WIDTH / 2, y: CANVAS_HEIGHT - 100 }
StartPosition == [x |-> CANVAS_WIDTH \div 2, y |-> CANVAS_HEIGHT - 100]

\* the useState initial values; obstacles are kept by their number
AdventureState ==
    [gameState |-> "waiting", score |-> 0, timeLeft |-> GAME_DURATION \div 1000,
     currentChallenge |-> NoProblem, difficulty |-> 1, correctStreak |-> 0,
     maxStreak |-> 0, playerPosition |-> StartPosition, obstacles |-> 0,
     treasures |-> <<>>]

\* the useRef initial values
AdventureRefs ==
    [gameStateRef |-> "waiting", timeLeftRef |-> GameSeconds,
     keysPressed |-> [left |-> FALSE, right |-> FALSE]]

\* whether the option loop of generateChallenge can fail to terminate at tier d
AdventureHangs ==
    [d \in 1..3 |-> \E c \in Challenges(d) :
                        Cardinality(Range(c.optionsList) \ {c.answer}) < 3]

\* the outcomes of a call of generateChallenge whose closure holds difficulty d
GenerateChallenge(d) ==
    {[hangs |-> FALSE, problem |-> [tier |-> d]]}
        \cup (IF AdventureHangs[d] THEN {[hangs |-> TRUE, problem |-> NoProblem]} ELSE {})

\* Places a treasure of the level is drawn at: two within 30 of a position
\* the player can stand at (y = 500), one out of reach.
NearSpots == {[x |-> 200, y |-> 480], [x |-> 225, y |-> 480]}
FarSpot == [x |-> 200, y |-> 300]

Treasure(spot) == [x |-> spot.x, y |-> spot.y, collected |-> FALSE]

\* the 5 treasures the initialisation pushes, the near ones first
InitialTreasures ==
    {[i \in 1..5 |-> Treasure(IF i <= Len(near) THEN near[i] ELSE FarSpot)] :
        near \in UNION {[1..n -> NearSpots] : n \in 0..Min(5, MaxNear)}}

\* distance < 30 between the player and a treasure
Reaches(position, treasure) ==
    (position.x - treasure.x) * (position.x - treasure.x)
        + (position.y - treasure.y) * (position.y - treasure.y) < 30 * 30

\* the treasures the updater of setTreasures collects
Collected(position, treasures) ==
    {i \in DOMAIN treasures :
        ~treasures[i].collected /\ Reaches(position, treasures[i])}

\* the render of the queued calls followed by `updates`, and its effects: the
\* initialisation (generateChallenge, 5 obstacles, 5 treasures) when gameState
\* is "playing" and gameState or difficulty has changed, gameStateRef.current =
\* gameState when gameState has changed
AdventureRender(updates, refs1, timers1) ==
    LET rendered == Render(state, queue \o updates)
        phaseChanged == rendered.gameState # state.gameState
        initializes == /\ rendered.gameState = "playing"
                       /\ phaseChanged \/ rendered.difficulty # state.difficulty
    IN  /\ queue' = <<>>
        /\ timers' = timers1
        /\ refs' = IF phaseChanged
                   THEN [refs1 EXCEPT !.gameStateRef = rendered.gameState]
                   ELSE refs1
        /\ IF initializes
           THEN \E o \in GenerateChallenge(rendered.difficulty),
                   t \in IF rendered.score < MaxScore THEN InitialTreasures
                         ELSE {[i \in 1..5 |-> Treasure(FarSpot)]} :
                    /\ hung' = o.hangs
                    /\ state' = IF o.hangs THEN rendered
                                ELSE [rendered EXCEPT !.currentChallenge = o.problem,
                                                      !.obstacles = 5,
                                                      !.treasures = t]
           ELSE hung' = FALSE /\ state' = rendered

AdventureStartGameUpdates ==
    <<Set("score", 0), Set("correctStreak", 0), Set("maxStreak", 0),
      Set("difficulty", 1), Set("timeLeft", GAME_DURATION \div 1000),
      Set("gameState", "playing"), Set("playerPosition", StartPosition),
      Set("obstacles", 0), Set("treasures", <<>>)>>

AdventureStartGame ==
    AdventureRender(AdventureStartGameUpdates,
                    [refs EXCEPT !.timeLeftRef = GameSeconds, !.gameStateRef = "playing"],
                    timers)

\* handleCanvasClick while waiting or gameOver: startGame
AdventureClickStart ==
    /\ currentGame = "adventure" /\ ~hung
    /\ refs.gameStateRef \in {"waiting", "gameOver"}
    /\ AdventureStartGame
    /\ UNCHANGED <<genVars, storage, draws, currentGame>>

\* the "New Adventure" button, rendered while gameState is "playing": startGame
AdventureNewButton ==
    /\ currentGame = "adventure" /\ ~hung
    /\ state.gameState = "playing"
    /\ AdventureStartGame
    /\ UNCHANGED <<genVars, storage, draws, currentGame>>

\* handleCanvasClick while playing, on the circle of an option: checkAnswer
AdventureClickOption(correct) ==
    /\ currentGame = "adventure" /\ ~hung
    /\ refs.gameStateRef = "playing"
    /\ state.currentChallenge # NoProblem
    /\ ~refs.keysPressed.left /\ ~refs.keysPressed.right
    /\ Len(timers) < MaxTimers
    /\ correct => state.score < MaxScore
    /\ AdventureRender(IF correct
                       THEN <<Add("score", state.difficulty * 5),
                              Streak("correctStreak", "maxStreak", state.maxStreak)>>
                       ELSE <<Set("correctStreak", 0)>>,
                       refs,
                       Append(timers, [difficulty |-> state.difficulty]))
    /\ UNCHANGED <<genVars, storage, draws, currentGame>>

\* the timeout of checkAnswer: generateChallenge of the render that set it
AdventureFeedbackTimeout ==
    /\ currentGame = "adventure" /\ ~hung
    /\ timers # <<>>
    /\ queue = <<>>
    /\ \E o \in GenerateChallenge(Head(timers).difficulty) :
           /\ hung' = o.hangs
           /\ state' = IF o.hangs THEN state
                       ELSE [state EXCEPT !.currentChallenge = o.problem]
    /\ timers' = Tail(timers)
    /\ UNCHANGED <<genVars, storage, draws, currentGame, refs, queue>>

\* handleKeyDown / handleKeyUp on ArrowLeft, ArrowRight.  The player followed
\* here presses one key at a time, in the first frames of a session and
\* while no feedback is shown, and selects no option with a key held.
AdventureKey(key, down) ==
    /\ currentGame = "adventure" /\ ~hung
    /\ refs.keysPressed[key] # down
    /\ down => /\ refs.gameStateRef \in {"waiting", "playing"}
               /\ refs.timeLeftRef \in EarlyValues
               /\ queue = <<>> /\ timers = <<>>
               /\ ~refs.keysPressed.left /\ ~refs.keysPressed.right
    /\ refs' = [refs EXCEPT !.keysPressed[key] = down]
    /\ UNCHANGED <<genVars, storage, draws, currentGame, state, queue, timers, hung>>

\* the updater of setPlayerPosition: 5 to the left and to the right by the
\* keys, kept within 30..CANVAS_WIDTH - 30
MovePlayer(prev, keys) ==
    LET left == IF keys.left THEN prev.x - 5 ELSE prev.x
        newX == IF keys.right THEN left + 5 ELSE left
    IN  [x |-> Max(30, Min(CANVAS_WIDTH - 30, newX)), y |-> prev.y]

\* the calls the updater of setTreasures makes for k collected treasures:
\* setScore(s => s + difficulty * 10) and the streak, on the closure of update
RECURSIVE CollectUpdates(_)
CollectUpdates(k) ==
    IF k = 0 THEN <<>>
    ELSE <<Add("score", state.difficulty * 10),
           Streak("correctStreak", "maxStreak", state.maxStreak)>>
             \o CollectUpdates(k - 1)

\* update, called by gameLoop on an animation frame
AdventureUpdate ==
    /\ currentGame = "adventure" /\ ~hung
    /\ queue = <<>>
    /\ refs.gameStateRef = "playing"
    /\ \/ refs.timeLeftRef \in SingleFrameValues
       \/ /\ ~refs.keysPressed.left /\ ~refs.keysPressed.right
          /\ \/ DifficultyUpdates # <<>>
             \/ Collected(state.playerPosition, state.treasures) # {}
    /\ LET t == Tick(refs.timeLeftRef)
           found == Collected(state.playerPosition, state.treasures)
           marked == [i \in DOMAIN state.treasures |->
                         IF i \in found
                         THEN [state.treasures[i] EXCEPT !.collected = TRUE]
                         ELSE state.treasures[i]]
       IN  IF NotPositive(t)
           THEN /\ refs' = [refs EXCEPT !.timeLeftRef = t, !.gameStateRef = "gameOver"]
                /\ queue' = <<Set("timeLeft", Ceil(t)), Set("gameState", "gameOver")>>
                /\ hung' = FALSE
           ELSE /\ refs' = [refs EXCEPT !.timeLeftRef = t]
                /\ \E o \in GenerateChallenge(state.difficulty) :
                       /\ hung' = (found # {} /\ o.hangs)
                       /\ found = {} => ~o.hangs
                       /\ queue' = <<Set("timeLeft", Ceil(t)),
                                     Set("playerPosition",
                                         MovePlayer(state.playerPosition, refs.keysPressed))>>
                                   \o CollectUpdates(Cardinality(found))
                                   \o (IF found # {} /\ ~o.hangs
                                       THEN <<Set("currentChallenge", o.problem)>>
                                       ELSE <<>>)
                                   \o <<Set("treasures", marked)>>
                                   \o DifficultyUpdates
    /\ UNCHANGED <<genVars, storage, draws, currentGame, state, timers>>

\* the frames up to frame IdleFrames, each rendered, in which update changes
\* the countdown only
AdventureIdleFrames ==
    /\ currentGame = "adventure" /\ ~hung
    /\ queue = <<>> /\ timers = <<>>
    /\ refs.gameStateRef = "playing"
    /\ DifficultyUpdates = <<>>
    /\ ~refs.keysPressed.left /\ ~refs.keysPressed.right
    /\ Collected(state.playerPosition, state.treasures) = {}
    /\ refs.timeLeftRef \in IdleStartValues
    /\ refs' = [refs EXCEPT !.timeLeftRef = Countdown[IdleFrames + 1]]
    /\ state' = [state EXCEPT !.timeLeft = Ceil(Countdown[IdleFrames + 1])]
    /\ UNCHANGED <<genVars, storage, draws, currentGame, queue, timers, hung>>

\* React renders the calls a frame or a timeout has queued
AdventureCommit ==
    /\ currentGame = "adventure" /\ ~hung
    /\ queue # <<>>
    /\ AdventureRender(<<>>, refs, timers)
    /\ UNCHANGED <<genVars, storage, draws, currentGame>>

(***************************************************************************)
(* Rainbow Painter: the session.  paintSplats and specialEffects, which are *)
(* only drawn, are left out.                                               *)
(***************************************************************************)
PLAYER_SIZE == 60
PAINT_BLOB_SIZE == 30
PAINT_SPEED == 3
PLAYER_SPEED == 6

\* { x: CANVAS_WIDTH / 2 - PLAYER_SIZE / 2, y: CANVAS_HEIGHT - PLAYER_SIZE - 10 }
StartPlayer ==
    [x |-> CANVAS_WIDTH \div 2 - PLAYER_SIZE \div 2,
     y |-> CANVAS_HEIGHT - PLAYER_SIZE - 10]

\* the useState initial values
RainbowState ==
    [gameState |-> "waiting", score |-> 0, currentColor |-> NULL,
     timeLeft |-> GAME_DURATION \div 1000, targetColor |-> NULL, combo |-> 0,
     maxCombo |-> 0]

\* the useRef initial values
RainbowRefs ==
    [gameStateRef |-> "waiting", timeLeftRef |-> GameSeconds,
     playerRef |-> StartPlayer, paintBlobsRef |-> <<>>,
     keysRef |-> [left |-> FALSE, right |-> FALSE], targetColorRef |-> NULL]

\* the colours of paintColors the model draws from
PaintColors == {"#FF6B6B", "#4ECDC4"}

\* The x a blob is spawned at, out of [PAINT_BLOB_SIZE, CANVAS_WIDTH -
\* PAINT_BLOB_SIZE): one above the player's start, one to the left of it.
BlobSpots == {200, 40}

\* the blobs spawnPaint can push
NewBlobs ==
    {[x |-> x, y |-> 0 - PAINT_BLOB_SIZE, color |-> c, special |-> sp] :
        x \in BlobSpots, c \in PaintColors, sp \in BOOLEAN}

\* the collision test of update
Touches(blob, player) ==
    /\ blob.y + PAINT_BLOB_SIZE > player.y
    /\ blob.y - PAINT_BLOB_SIZE < player.y + PLAYER_SIZE
    /\ blob.x + PAINT_BLOB_SIZE > player.x
    /\ blob.x - PAINT_BLOB_SIZE < player.x + PLAYER_SIZE

\* the player after update has moved it by the keys
MovePainter(player, keys) ==
    LET left == IF keys.left /\ player.x > 0 THEN player.x - PLAYER_SPEED ELSE player.x
        right == IF keys.right /\ left < CANVAS_WIDTH - PLAYER_SIZE
                 THEN left + PLAYER_SPEED ELSE left
    IN  [player EXCEPT !.x = right]

\* blob.y += PAINT_SPEED, k times
Fall(blobs, k) == [i \in DOMAIN blobs |-> [blobs[i] EXCEPT !.y = @ + k * PAINT_SPEED]]

\* filter(blob => !blob.collected && blob.y - PAINT_BLOB_SIZE < CANVAS_HEIGHT)
KeepBlobs(blobs, player) ==
    SelectSeq(blobs, LAMBDA b : ~Touches(b, player) /\ b.y - PAINT_BLOB_SIZE < CANVAS_HEIGHT)

\* the calls update makes for the blobs that touch the player, in store order
RECURSIVE CollisionUpdates(_, _, _)
CollisionUpdates(blobs, player, target) ==
    IF blobs = <<>> THEN <<>>
    ELSE LET blob == Head(blobs)
             base == IF blob.special THEN 15 ELSE 5
             points == IF target = blob.color THEN base * 2 ELSE base
         IN  (IF Touches(blob, player)
              THEN <<Set("currentColor", blob.color), Add("score", points),
                     IF blob.special THEN Streak("combo", "maxCombo", state.maxCombo)
                     ELSE Set("combo", 0)>>
              ELSE <<>>) \o CollisionUpdates(Tail(blobs), player, target)

\* the render of the queued calls followed by `updates`, and its effect:
\* gameStateRef.current = gameState when gameState has changed
RainbowRender(updates, refs1, timers1) ==
    LET rendered == Render(state, queue \o updates)
    IN  /\ queue' = <<>>
        /\ timers' = timers1
        /\ refs' = IF rendered.gameState # state.gameState
                   THEN [refs1 EXCEPT !.gameStateRef = rendered.gameState]
                   ELSE refs1
        /\ state' = rendered
        /\ hung' = FALSE

RainbowStartGameUpdates ==
    <<Set("currentColor", NULL), Set("score", 0), Set("combo", 0),
      Set("maxCombo", 0), Set("targetColor", NULL),
      Set("timeLeft", GAME_DURATION \div 1000), Set("gameState", "playing")>>

RainbowStartGame ==
    RainbowRender(RainbowStartGameUpdates,
                  [refs EXCEPT !.playerRef = StartPlayer, !.paintBlobsRef = <<>>,
                               !.targetColorRef = NULL, !.timeLeftRef = GameSeconds,
                               !.gameStateRef = "playing"],
                  timers)

\* handleCanvasClick while waiting or gameOver: startGame
RainbowClickStart ==
    /\ currentGame = "rainbow"
    /\ refs.gameStateRef \in {"waiting", "gameOver"}
    /\ RainbowStartGame
    /\ UNCHANGED <<genVars, storage, draws, currentGame>>

\* the points of a splat or a paintball
PaintPoints == IF refs.targetColorRef = state.currentColor THEN 25 ELSE 10

\* handleCanvasClick while playing, inside the painting area, with a colour
\* (a click, or a touch that starts there)
RainbowClickPaint ==
    /\ currentGame = "rainbow"
    /\ refs.gameStateRef = "playing"
    /\ state.currentColor # NULL
    /\ RainbowRender(<<Add("score", PaintPoints), Set("currentColor", NULL)>>,
                     refs, timers)
    /\ UNCHANGED <<genVars, storage, draws, currentGame>>

\* firePaintball: by the "Fire Paintball" button, rendered while gameState is
\* "playing", or by the space key or a tap, accepted while gameStateRef is
\* "playing"
RainbowFire(source) ==
    /\ currentGame = "rainbow"
    /\ IF source = "button" THEN state.gameState = "playing"
       ELSE refs.gameStateRef = "playing"
    /\ state.currentColor # NULL
    /\ RainbowRender(<<Add("score", PaintPoints), Set("currentColor", NULL)>>,
                     refs, timers)
    /\ UNCHANGED <<genVars, storage, draws, currentGame>>

\* handleKeyDown / handleKeyUp on ArrowLeft, ArrowRight.  The player followed
\* here presses one key at a time, before or in the first frames of a session.
RainbowKey(key, down) ==
    /\ currentGame = "rainbow"
    /\ refs.keysRef[key] # down
    /\ down => /\ refs.gameStateRef \in {"waiting", "playing"}
               /\ refs.timeLeftRef \in EarlyValues
               /\ queue = <<>>
               /\ ~refs.keysRef.left /\ ~refs.keysRef.right
    /\ refs' = [refs EXCEPT !.keysRef[key] = down]
    /\ UNCHANGED <<genVars, storage, draws, currentGame, state, queue, timers, hung>>

\* deltaX of a touch move, in pixels
TouchMoves == {-300, 300}

\* handleTouchMove: player.x += deltaX * 0.8, kept within 0..CANVAS_WIDTH - PLAYER_SIZE
RainbowTouchMove(deltaX) ==
    /\ currentGame = "rainbow"
    /\ refs.gameStateRef = "playing"
    /\ LET x == refs.playerRef.x + (deltaX * 8) \div 10
       IN  refs' = [refs EXCEPT !.playerRef.x =
                        IF x < 0 THEN 0
                        ELSE IF x > CANVAS_WIDTH - PLAYER_SIZE THEN CANVAS_WIDTH - PLAYER_SIZE
                        ELSE x]
    /\ refs'.playerRef # refs.playerRef
    /\ UNCHANGED <<genVars, storage, draws, currentGame, state, queue, timers, hung>>

\* spawnPaint, on the interval the effect of a render with gameState
\* "playing" has set and the next render with another gameState clears
RainbowSpawn ==
    /\ currentGame = "rainbow"
    /\ state.gameState = "playing"
    /\ Len(refs.paintBlobsRef) < MaxEntities
    /\ \E blob \in NewBlobs :
           refs' = [refs EXCEPT !.paintBlobsRef = Append(@, blob)]
    /\ UNCHANGED <<genVars, storage, draws, currentGame, state, queue, timers, hung>>

\* the timeout of update that clears the target colour
RainbowTargetTimeout ==
    /\ currentGame = "rainbow"
    /\ timers # <<>>
    /\ queue = <<>>
    /\ state' = [state EXCEPT !.targetColor = NULL]
    /\ refs' = [refs EXCEPT !.targetColorRef = NULL]
    /\ timers' = Tail(timers)
    /\ UNCHANGED <<genVars, storage, draws, currentGame, queue, hung>>

\* the blobs that touch the player in the frame that starts at `r`
Colliding(r) ==
    LET player == MovePainter(r.playerRef, r.keysRef)
        blobs == Fall(r.paintBlobsRef, 1)
    IN  {i \in DOMAIN blobs : Touches(blobs[i], player)}

\* update, called by gameLoop on an animation frame; the draw
\* Math.random() < 0.01 chooses whether a target colour is set
RainbowUpdate ==
    /\ currentGame = "rainbow"
    /\ queue = <<>>
    /\ refs.gameStateRef = "playing"
    /\ refs.timeLeftRef \in SingleFrameValues \/ Colliding(refs) # {}
    /\ LET t == Tick(refs.timeLeftRef)
           player == MovePainter(refs.playerRef, refs.keysRef)
           blobs == Fall(refs.paintBlobsRef, 1)
           moved == [refs EXCEPT !.timeLeftRef = t, !.playerRef = player,
                                 !.paintBlobsRef = KeepBlobs(blobs, player)]
           calls == <<Set("timeLeft", Ceil(t))>>
                        \o CollisionUpdates(blobs, player, refs.targetColorRef)
       IN  IF NotPositive(t)
           THEN /\ refs' = [refs EXCEPT !.timeLeftRef = t, !.gameStateRef = "gameOver"]
                /\ queue' = <<Set("timeLeft", Ceil(t)), Set("gameState", "gameOver")>>
                /\ timers' = timers
           ELSE \/ /\ refs' = moved
                   /\ queue' = calls
                   /\ timers' = timers
                \/ /\ refs.targetColorRef = NULL
                   /\ Len(timers) < MaxTimers
                   /\ \E newTarget \in PaintColors :
                          /\ refs' = [moved EXCEPT !.targetColorRef = newTarget]
                          /\ queue' = Append(calls, Set("targetColor", newTarget))
                   /\ timers' = Append(timers, [clears |-> "targetColor"])
    /\ UNCHANGED <<genVars, storage, draws, currentGame, state, hung>>

\* the frames a blob falls from its spawn to the last place above the player
FallFrames == (StartPlayer.y - PAINT_BLOB_SIZE + PAINT_BLOB_SIZE) \div PAINT_SPEED

\* the player after k frames with the keys held as they are, one at most
WalkPainter(player, keys, k) ==
    IF keys.left /\ player.x > 0
    THEN [player EXCEPT !.x = @ - PLAYER_SPEED * Min(k, (@ + PLAYER_SPEED - 1) \div PLAYER_SPEED)]
    ELSE IF keys.right /\ player.x < CANVAS_WIDTH - PLAYER_SIZE
    THEN [player EXCEPT !.x = @ + PLAYER_SPEED *
              Min(k, (CANVAS_WIDTH - PLAYER_SIZE - @ + PLAYER_SPEED - 1) \div PLAYER_SPEED)]
    ELSE player

\* no blob touches the player in the next k frames: there is no blob, or the
\* player stands still and the blobs above it stay above it
NoCollision(r, k) ==
    \/ r.paintBlobsRef = <<>>
    \/ /\ ~r.keysRef.left /\ ~r.keysRef.right
       /\ \A i \in DOMAIN r.paintBlobsRef :
              LET blob == r.paintBlobsRef[i]
              IN  \/ blob.x + PAINT_BLOB_SIZE <= r.playerRef.x
                  \/ blob.x - PAINT_BLOB_SIZE >= r.playerRef.x + PLAYER_SIZE
                  \/ blob.y + k * PAINT_SPEED + PAINT_BLOB_SIZE <= r.playerRef.y
                  \/ blob.y - PAINT_BLOB_SIZE >= r.playerRef.y + PLAYER_SIZE

\* the refs after k frames, each rendered, in which update counts down, moves
\* the player and the blobs, and sets no target colour
QuietFrames(r, frame, k) ==
    LET player == WalkPainter(r.playerRef, r.keysRef, k)
    IN  [r EXCEPT !.timeLeftRef = Countdown[frame + k + 1],
                  !.playerRef = player,
                  !.paintBlobsRef = KeepBlobs(Fall(@, k), player)]

\* FallFrames frames of a session that has just started
RainbowFall ==
    /\ currentGame = "rainbow"
    /\ queue = <<>>
    /\ refs.gameStateRef = "playing"
    /\ ~(refs.keysRef.left /\ refs.keysRef.right)
    /\ NoCollision(refs, FallFrames)
    /\ \E frame \in 0..EarlyFrames :
           /\ refs.timeLeftRef = Countdown[frame + 1]
           /\ refs' = QuietFrames(refs, frame, FallFrames)
           /\ state' = [state EXCEPT !.timeLeft = Ceil(Countdown[frame + FallFrames + 1])]
    /\ UNCHANGED <<genVars, storage, draws, currentGame, queue, timers, hung>>

\* the frames up to frame IdleFrames, with no blob and no key held
RainbowIdleFrames ==
    /\ currentGame = "rainbow"
    /\ queue = <<>> /\ timers = <<>>
    /\ refs.gameStateRef = "playing"
    /\ refs.paintBlobsRef = <<>>
    /\ ~refs.keysRef.left /\ ~refs.keysRef.right
    /\ refs.timeLeftRef \in IdleStartValues
    /\ refs' = [refs EXCEPT !.timeLeftRef = Countdown[IdleFrames + 1]]
    /\ state' = [state EXCEPT !.timeLeft = Ceil(Countdown[IdleFrames + 1])]
    /\ UNCHANGED <<genVars, storage, draws, currentGame, queue, timers, hung>>

\* React renders the calls a frame has queued
RainbowCommit ==
    /\ currentGame = "rainbow"
    /\ queue # <<>>
    /\ RainbowRender(<<>>, refs, timers)
    /\ UNCHANGED <<genVars, storage, draws, currentGame>>

(***************************************************************************)
(* Balloon Pop: the session.  popEffect, which is only drawn, is left out.  *)
(* A balloon's y is held in tenths of a pixel.  The speeds 2, 3, 1 and 1.5  *)
(* are exact in a double; 2.4, 1.6, 1.2 and 0.8 (BOMB, GOLDEN) are not, and *)
(* their error, below 1e-11, decides one comparison only: that of a balloon *)
(* which arrives at y + BALLOON_RADIUS = 0, left open here (`below`).       *)
(***************************************************************************)
BALLOON_RADIUS == 30
BALLOON_SPEED == 2
INITIAL_LIVES == 3

BalloonKinds == {"NORMAL", "BOMB", "GOLDEN", "SPEED", "LIFE"}

\* BALLOON_TYPES[type].score
BalloonScore(type) ==
    CASE type = "NORMAL" -> 1 [] type = "BOMB" -> -5 [] type = "GOLDEN" -> 5
      [] type = "SPEED" -> 2 [] type = "LIFE" -> 0

\* BALLOON_TYPES[type].speed, in tenths of a pixel per frame
BalloonSpeed(type) ==
    CASE type = "NORMAL" -> BALLOON_SPEED * 10 [] type = "BOMB" -> BALLOON_SPEED * 12
      [] type = "GOLDEN" -> BALLOON_SPEED * 8 [] type = "SPEED" -> BALLOON_SPEED * 15
      [] type = "LIFE" -> BALLOON_SPEED * 10

\* the kinds whose speed is not exact in a double
Inexact(type) == type \in {"BOMB", "GOLDEN"}

\* the useState initial values
BalloonState ==
    [gameState |-> "waiting", score |-> 0, lives |-> INITIAL_LIVES, combo |-> 0,
     comboTimer |-> 0, activePowerUp |-> NULL, powerUpTimer |-> 0]

\* the useRef initial values
BalloonRefs ==
    [gameStateRef |-> "waiting", balloonsRef |-> <<>>, scoreRef |-> 0,
     livesRef |-> INITIAL_LIVES, comboRef |-> 0, comboTimerRef |-> 0,
     activePowerUpRef |-> NULL, powerUpTimerRef |-> 0]

\* the x a balloon is spawned at, out of [BALLOON_RADIUS, CANVAS_WIDTH - BALLOON_RADIUS)
BalloonSpots == {200}

\* y: CANVAS_HEIGHT + BALLOON_RADIUS, the y of a balloon that has not moved yet
SpawnLevel == (CANVAS_HEIGHT + BALLOON_RADIUS) * 10

\* Object.keys(BALLOON_TYPES), in the order of declaration
BalloonOrder == <<"NORMAL", "BOMB", "GOLDEN", "SPEED", "LIFE">>

\* BALLOON_TYPES[type].probability: the doubles nearest to 0.55, 0.2, 0.1,
\* 0.1 and 0.05, in units of 2^-58
Probability(type) ==
    CASE type = "NORMAL" -> Double(FALSE, 9011, 838860, 3355456)
      [] type = "BOMB" -> Double(FALSE, 3276, 3355443, 838864)
      [] type = "GOLDEN" -> Double(FALSE, 1638, 1677721, 2516584)
      [] type = "SPEED" -> Double(FALSE, 1638, 1677721, 2516584)
      [] type = "LIFE" -> Double(FALSE, 819, 838860, 3355444)

\* x + y for doubles x >= 0 and y >= 0
DoubleAdd(x, y) == RoundDouble(MagnitudeAdd(x, y, FALSE))

\* `cumulative` after the first i entries of the loop of getRandomBalloonType
RECURSIVE Cumulative(_)
Cumulative(i) ==
    IF i = 0 THEN Double(FALSE, 0, 0, 0)
    ELSE DoubleAdd(Cumulative(i - 1), Probability(BalloonOrder[i]))

\* the entries whose test rand <= cumulative succeeds
Buckets(rand) == {i \in DOMAIN BalloonOrder : MagnitudeGE(Cumulative(i), rand)}

\* getRandomBalloonType with the test rand < cumulative
getRandomBalloonTypeStrict(rand) ==
    LET strict == {i \in Buckets(rand) : Cumulative(i) # rand}
    IN  IF strict = {} THEN "NORMAL"
        ELSE BalloonOrder[CHOOSE i \in strict : \A j \in strict : i <= j]

\* getRandomBalloonType on the draw rand of Math.random()
getRandomBalloonType(rand) ==
    IF Buckets(rand) = {} THEN "NORMAL"
    ELSE BalloonOrder[CHOOSE i \in Buckets(rand) : \A j \in Buckets(rand) : i <= j]

\* the doubles next to x, for 1/2 <= x <= 1: 2^-53 = 2^5 units away
Below(x) == MagnitudeSub(x, Double(FALSE, 0, 0, 2^5), FALSE)
Above(x) == MagnitudeAdd(x, Double(FALSE, 0, 0, 2^5), FALSE)

\* The draws of Math.random(), a double of [0, 1), the model takes: 0, the
\* largest double below 1, and every value of `cumulative` below 1 with the
\* doubles next to it.
Draws ==
    {Double(FALSE, 0, 0, 0), Below(Double(FALSE, 2^14, 0, 0))}
        \cup UNION {{Below(Cumulative(i)), Cumulative(i), Above(Cumulative(i))} :
                       i \in 1..(Len(BalloonOrder) - 1)}

\* the kinds spawnBalloon can draw
DrawnKinds == {getRandomBalloonType(rand) : rand \in Draws}

\* a call of getRandomBalloonType, with its draw
CallGetRandomBalloonType ==
    /\ Len(draws) < MaxDraws
    /\ \E rand \in Draws :
           draws' = Append(draws, [rand |-> rand, type |-> getRandomBalloonType(rand)])
    /\ UNCHANGED <<genVars, sessVars, storage>>

\* the calls of getRandomBalloonType on their own, no component mounted
DrawInit ==
    /\ gen = NULL /\ tier = 0 /\ pc = "idle"
    /\ num1 = 0 /\ num2 = 0 /\ operator = NULL
    /\ challenge = <<>> /\ answer = NULL
    /\ optionsList = <<>> /\ finalOptions = <<>>
    /\ currentProblem = NULL /\ options = <<>>
    /\ currentGame = NULL /\ state = NULL /\ refs = NULL
    /\ queue = <<>> /\ timers = <<>> /\ hung = FALSE
    /\ storage = NoStorage
    /\ draws = <<>>

DrawNext == CallGetRandomBalloonType

SpecDraw == DrawInit /\ [][DrawNext]_vars

\* the balloons spawnBalloon can push
NewBalloons ==
    {[x |-> x, y |-> SpawnLevel, popped |-> FALSE, type |-> t] :
        x \in BalloonSpots, t \in DrawnKinds}

\* b.speed * speedMultiplier
Rise(r, b) ==
    IF r.activePowerUpRef = "SPEED" THEN BalloonSpeed(b.type) \div 2 ELSE BalloonSpeed(b.type)

\* b.y + BALLOON_RADIUS < 0
Escaped(b, below) ==
    \/ b.y + BALLOON_RADIUS * 10 < 0
    \/ b.y + BALLOON_RADIUS * 10 = 0 /\ Inexact(b.type) /\ below

\* b.y + BALLOON_RADIUS > 0
OnScreen(b, below) ==
    \/ b.y + BALLOON_RADIUS * 10 > 0
    \/ b.y + BALLOON_RADIUS * 10 = 0 /\ Inexact(b.type) /\ ~below

\* dx * dx + dy * dy <= BALLOON_RADIUS * BALLOON_RADIUS
Hits(point, b) ==
    LET dx == (point.x - b.x) * 10
        dy == point.y - b.y
    IN  dx * dx + dy * dy <= (BALLOON_RADIUS * 10) * (BALLOON_RADIUS * 10)

\* the places of the canvas, 0 <= y < CANVAS_HEIGHT, a click or a touch lands
\* on: a balloon's centre, or the point of the canvas next to it
ClickPoints(r) ==
    {[x |-> r.balloonsRef[i].x,
      y |-> Max(0, Min(r.balloonsRef[i].y, CANVAS_HEIGHT * 10 - 1))] :
        i \in DOMAIN r.balloonsRef}

\* the body of the forEach of handleCanvasClick and handleTouch for balloon i:
\* handleBalloonPop and the effect of its kind; the high score, which the
\* session reads nowhere else, is added to it by StackPop
PopBalloon(o, i) ==
    LET r == o.refs
        b == r.balloonsRef[i]
        base == BalloonScore(b.type)
        points == IF base > 0 THEN base * (IF r.comboRef > 1 THEN r.comboRef ELSE 1)
                  ELSE base
        popped == [r EXCEPT !.balloonsRef[i].popped = TRUE,
                            !.scoreRef = @ + points,
                            !.comboRef = IF points > 0 THEN @ + 1 ELSE 0,
                            !.comboTimerRef = IF points > 0 THEN 2000 ELSE @]
        popCalls == <<Set("score", popped.scoreRef)>>
                        \o (IF points > 0
                            THEN <<Set("combo", popped.comboRef), Set("comboTimer", 2000)>>
                            ELSE <<Set("combo", 0)>>)
    IN  IF b.type = "BOMB"
        THEN LET lives == popped.livesRef - 1
             IN  IF lives <= 0
                 THEN [refs |-> [popped EXCEPT !.livesRef = lives, !.gameStateRef = "gameOver"],
                       calls |-> o.calls \o popCalls
                                    \o <<Set("lives", lives), Set("gameState", "gameOver")>>]
                 ELSE [refs |-> [popped EXCEPT !.livesRef = lives],
                       calls |-> o.calls \o popCalls \o <<Set("lives", lives)>>]
        ELSE IF b.type = "LIFE"
        THEN LET lives == Min(popped.livesRef + 1, 5)
             IN  [refs |-> [popped EXCEPT !.livesRef = lives],
                  calls |-> o.calls \o popCalls \o <<Set("lives", lives)>>]
        ELSE IF b.type = "SPEED"
        THEN [refs |-> [popped EXCEPT !.activePowerUpRef = "SPEED", !.powerUpTimerRef = 5000],
              calls |-> o.calls \o popCalls
                           \o <<Set("activePowerUp", "SPEED"), Set("powerUpTimer", 5000)>>]
        ELSE [refs |-> popped, calls |-> o.calls \o popCalls]

\* balloonsRef.current.forEach of handleCanvasClick and handleTouch, from
\* balloon i on: the refs it leaves and the calls it makes
RECURSIVE PopBalloons(_, _, _)
PopBalloons(o, i, point) ==
    IF i > Len(o.refs.balloonsRef) THEN o
    ELSE LET b == o.refs.balloonsRef[i]
         IN  PopBalloons(IF ~b.popped /\ Hits(point, b) THEN PopBalloon(o, i) ELSE o,
                         i + 1, point)

\* the render of the queued calls followed by `updates`, and its effect:
\* gameStateRef.current = gameState when gameState has changed
BalloonRender(updates, refs1) ==
    LET rendered == Render(state, queue \o updates)
    IN  /\ queue' = <<>>
        /\ refs' = IF rendered.gameState # state.gameState
                   THEN [refs1 EXCEPT !.gameStateRef = rendered.gameState]
                   ELSE refs1
        /\ state' = rendered
        /\ UNCHANGED <<timers, hung>>

\* the refs as startGame and resetGame leave them, gameStateRef apart
BalloonFreshRefs ==
    [BalloonRefs EXCEPT !.gameStateRef = refs.gameStateRef]

\* the calls startGame and resetGame share
BalloonFreshUpdates ==
    <<Set("score", 0), Set("lives", INITIAL_LIVES), Set("combo", 0),
      Set("comboTimer", 0), Set("activePowerUp", NULL), Set("powerUpTimer", 0)>>

BalloonStartGame ==
    BalloonRender(BalloonFreshUpdates \o <<Set("gameState", "playing")>>,
                  [BalloonFreshRefs EXCEPT !.gameStateRef = "playing"])

\* handleCanvasClick while waiting or gameOver: startGame
BalloonClickStart ==
    /\ currentGame = "balloon"
    /\ refs.gameStateRef \in {"waiting", "gameOver"}
    /\ BalloonStartGame
    /\ UNCHANGED <<genVars, storage, draws, currentGame>>

\* togglePause, by the Pause / Resume button, rendered while gameState is
\* "playing" or "paused"; it reads the gameState of its render
BalloonTogglePause ==
    /\ currentGame = "balloon"
    /\ state.gameState \in {"playing", "paused"}
    /\ LET next == IF state.gameState = "playing" THEN "paused" ELSE "playing"
       IN  BalloonRender(<<Set("gameState", next)>>, [refs EXCEPT !.gameStateRef = next])
    /\ UNCHANGED <<genVars, storage, draws, currentGame>>

\* resetGame, by the Reset button, rendered while gameState is "playing" or
\* "paused"
BalloonResetGame ==
    /\ currentGame = "balloon"
    /\ state.gameState \in {"playing", "paused"}
    /\ BalloonRender(<<Set("gameState", "waiting")>> \o BalloonFreshUpdates,
                     [BalloonFreshRefs EXCEPT !.gameStateRef = "waiting"])
    /\ UNCHANGED <<genVars, storage, draws, currentGame>>

\* handleCanvasClick (source "click") or handleTouch (source "touch") while
\* playing, at a place where it pops a balloon
BalloonPop(source, point) ==
    /\ currentGame = "balloon"
    /\ source \in {"click", "touch"}
    /\ refs.gameStateRef = "playing"
    /\ LET o == PopBalloons([refs |-> refs, calls |-> <<>>], 1, point)
       IN  /\ o.calls # <<>>
           /\ o.refs.scoreRef \in (0 - MaxPopScore)..MaxPopScore
           /\ o.refs.livesRef >= 0 - MaxLivesOwed
           /\ BalloonRender(o.calls, o.refs)
    /\ UNCHANGED <<genVars, storage, draws, currentGame>>

\* spawnBalloon on an interval that a pause does not clear
BalloonSpawnWhilePaused ==
    /\ currentGame = "balloon"
    /\ state.gameState \in {"playing", "paused"}
    /\ Len(refs.balloonsRef) < MaxBalloons
    /\ \A i \in DOMAIN refs.balloonsRef : refs.balloonsRef[i].y = SpawnLevel
    /\ refs.comboTimerRef \in {0, 2000} /\ refs.powerUpTimerRef \in {0, 5000}
    /\ \E b \in NewBalloons :
           refs' = [refs EXCEPT !.balloonsRef = Append(@, b)]
    /\ UNCHANGED <<genVars, storage, draws, currentGame, state, queue, timers, hung>>

\* spawnBalloon, on the interval the effect of a render with gameState
\* "playing" has set and the next render with another gameState clears.  The
\* interval followed here fires before the frames of a round: no balloon of
\* the store has moved and no timer has counted.
BalloonSpawn ==
    /\ currentGame = "balloon"
    /\ state.gameState = "playing"
    /\ Len(refs.balloonsRef) < MaxBalloons
    /\ \A i \in DOMAIN refs.balloonsRef : refs.balloonsRef[i].y = SpawnLevel
    /\ refs.comboTimerRef \in {0, 2000} /\ refs.powerUpTimerRef \in {0, 5000}
    /\ \E b \in NewBalloons :
           refs' = [refs EXCEPT !.balloonsRef = Append(@, b)]
    /\ UNCHANGED <<genVars, storage, draws, currentGame, state, queue, timers, hung>>

\* the combo and power-up timers of update
\* the timers of update without the reset of the combo
BalloonTimersKeepCombo(r) ==
    LET powerUpTimer == r.powerUpTimerRef - 16
        powerUpEnds == r.powerUpTimerRef > 0 /\ powerUpTimer <= 0
    IN  [refs |-> [r EXCEPT !.comboTimerRef = IF @ > 0 THEN @ - 16 ELSE @,
                            !.powerUpTimerRef = IF @ > 0 THEN powerUpTimer ELSE @,
                            !.activePowerUpRef = IF powerUpEnds THEN NULL ELSE @],
         calls |-> (IF r.powerUpTimerRef > 0
                    THEN <<Set("powerUpTimer", powerUpTimer)>> ELSE <<>>)
                      \o (IF powerUpEnds THEN <<Set("activePowerUp", NULL)>> ELSE <<>>)]

BalloonTimers(r) ==
    LET comboTimer == r.comboTimerRef - 16
        comboEnds == r.comboTimerRef > 0 /\ comboTimer <= 0
        powerUpTimer == r.powerUpTimerRef - 16
        powerUpEnds == r.powerUpTimerRef > 0 /\ powerUpTimer <= 0
    IN  [refs |-> [r EXCEPT !.comboTimerRef = IF @ > 0 THEN comboTimer ELSE @,
                            !.comboRef = IF comboEnds THEN 0 ELSE @,
                            !.powerUpTimerRef = IF @ > 0 THEN powerUpTimer ELSE @,
                            !.activePowerUpRef = IF powerUpEnds THEN NULL ELSE @],
         calls |-> (IF comboEnds THEN <<Set("combo", 0)>> ELSE <<>>)
                      \o (IF r.powerUpTimerRef > 0
                          THEN <<Set("powerUpTimer", powerUpTimer)>> ELSE <<>>)
                      \o (IF powerUpEnds THEN <<Set("activePowerUp", NULL)>> ELSE <<>>)]

\* the forEach of update without its test b.type !== "BOMB"
RECURSIVE MoveBalloonsBombCosts(_, _, _)
MoveBalloonsBombCosts(o, i, below) ==
    IF i > Len(o.refs.balloonsRef) THEN o
    ELSE LET r == o.refs
             b == r.balloonsRef[i]
             moved == [b EXCEPT !.y = @ - Rise(r, b)]
             lives == r.livesRef - 1
         IN  MoveBalloonsBombCosts(
                 IF b.popped THEN o
                 ELSE IF ~Escaped(moved, below)
                 THEN [o EXCEPT !.refs.balloonsRef[i] = moved]
                 ELSE [refs |-> [r EXCEPT !.balloonsRef[i] = [moved EXCEPT !.popped = TRUE],
                                          !.livesRef = lives,
                                          !.gameStateRef = IF lives <= 0 THEN "gameOver" ELSE @],
                       calls |-> o.calls \o <<Set("lives", lives)>>
                                    \o (IF lives <= 0 THEN <<Set("gameState", "gameOver")>>
                                        ELSE <<>>)],
                 i + 1, below)

\* balloonsRef.current.forEach of update, from balloon i on
RECURSIVE MoveBalloons(_, _, _)
MoveBalloons(o, i, below) ==
    IF i > Len(o.refs.balloonsRef) THEN o
    ELSE LET r == o.refs
             b == r.balloonsRef[i]
             moved == [b EXCEPT !.y = @ - Rise(r, b)]
             lives == r.livesRef - 1
         IN  MoveBalloons(
                 IF b.popped THEN o
                 ELSE IF ~Escaped(moved, below)
                 THEN [o EXCEPT !.refs.balloonsRef[i] = moved]
                 ELSE IF b.type = "BOMB"
                 THEN [o EXCEPT !.refs.balloonsRef[i] = [moved EXCEPT !.popped = TRUE]]
                 ELSE [refs |-> [r EXCEPT !.balloonsRef[i] = [moved EXCEPT !.popped = TRUE],
                                          !.livesRef = lives,
                                          !.gameStateRef = IF lives <= 0 THEN "gameOver" ELSE @],
                       calls |-> o.calls \o <<Set("lives", lives)>>
                                    \o (IF lives <= 0 THEN <<Set("gameState", "gameOver")>>
                                        ELSE <<>>)],
                 i + 1, below)

\* filter(b => b.y + BALLOON_RADIUS > 0 && !b.popped)
KeepBalloons(balloons, below) ==
    SelectSeq(balloons, LAMBDA b : OnScreen(b, below) /\ ~b.popped)

\* The frames from `r` to the next one in which a timer runs out, a balloon
\* comes within reach of the canvas or a balloon leaves the screen; 0 when
\* there is none.
FramesToEvent(r) ==
    LET frames ==
            (IF r.comboTimerRef > 0 THEN {(r.comboTimerRef + 15) \div 16} ELSE {})
            \cup (IF r.powerUpTimerRef > 0 THEN {(r.powerUpTimerRef + 15) \div 16} ELSE {})
            \cup {LET b == r.balloonsRef[i]
                      v == Rise(r, b)
                  IN  IF b.y = SpawnLevel THEN 1
                      ELSE Max(1, (b.y + BALLOON_RADIUS * 10 + v - 1) \div v) :
                  i \in {j \in DOMAIN r.balloonsRef : ~r.balloonsRef[j].popped}}
    IN  IF frames = {} THEN 0 ELSE CHOOSE n \in frames : \A m \in frames : n <= m

\* update, called by gameLoop on an animation frame: the frame of an event,
\* or the one that takes the popped balloons out when no event is to come
BalloonUpdate ==
    /\ currentGame = "balloon"
    /\ queue = <<>>
    /\ refs.gameStateRef = "playing"
    /\ \/ FramesToEvent(refs) = 1
       \/ /\ FramesToEvent(refs) = 0
          /\ \E i \in DOMAIN refs.balloonsRef : refs.balloonsRef[i].popped
    /\ \E below \in BOOLEAN :
           LET counted == BalloonTimers(refs)
               o == MoveBalloons(counted, 1, below)
           IN  /\ o.refs.livesRef >= 0 - MaxLivesOwed
               /\ refs' = [o.refs EXCEPT !.balloonsRef = KeepBalloons(@, below)]
               /\ queue' = o.calls
    /\ UNCHANGED <<genVars, storage, draws, currentGame, state, timers, hung>>

\* the frames before the next event, each rendered: the first takes the
\* popped balloons out, all move the others and count the timers down
BalloonRise ==
    /\ currentGame = "balloon"
    /\ queue = <<>>
    /\ refs.gameStateRef = "playing"
    /\ FramesToEvent(refs) > 1
    /\ LET k == FramesToEvent(refs) - 1
           powerUpTimer == refs.powerUpTimerRef - 16 * k
       IN  /\ refs' = [refs EXCEPT
                          !.comboTimerRef = IF @ > 0 THEN @ - 16 * k ELSE @,
                          !.powerUpTimerRef = IF @ > 0 THEN powerUpTimer ELSE @,
                          !.balloonsRef =
                              LET kept == SelectSeq(@, LAMBDA b : ~b.popped)
                              IN  [i \in DOMAIN kept |->
                                      [kept[i] EXCEPT !.y = @ - k * Rise(refs, kept[i])]]]
           /\ state' = IF refs.powerUpTimerRef > 0
                       THEN [state EXCEPT !.powerUpTimer = powerUpTimer]
                       ELSE state
    /\ UNCHANGED <<genVars, storage, draws, currentGame, queue, timers, hung>>

\* React renders the calls a frame has queued
BalloonCommit ==
    /\ currentGame = "balloon"
    /\ queue # <<>>
    /\ BalloonRender(<<>>, refs)
    /\ UNCHANGED <<genVars, storage, draws, currentGame>>

(***************************************************************************)
(* App: one game is mounted at a time.                                     *)
(***************************************************************************)
GameNames == {"rainbow", "balloon", "math", "adventure"}

\* the useState and useRef initial values of the component of game g
Mounted(g) ==
    CASE g = "rainbow" -> [state |-> RainbowState, refs |-> RainbowRefs]
      [] g = "balloon" -> [state |-> BalloonState, refs |-> BalloonRefs]
      [] g = "math" -> [state |-> MathState, refs |-> MathRefs]
      [] g = "adventure" -> [state |-> AdventureState, refs |-> AdventureRefs]

\* setCurrentGame(g), by a button of the game selector: the component of
\* the current game is unmounted, its frame loop and interval with it, and
\* the component of g is mounted
SetCurrentGame(g) ==
    /\ ~hung
    /\ g # currentGame
    /\ currentGame' = g
    /\ state' = Mounted(g).state
    /\ refs' = Mounted(g).refs
    /\ queue' = <<>>
    /\ timers' = <<>>
    /\ UNCHANGED <<genVars, storage, draws, hung>>

\* useState<GameName>("rainbow")
Init ==
    /\ gen = NULL /\ tier = 0 /\ pc = "idle"
    /\ num1 = 0 /\ num2 = 0 /\ operator = NULL
    /\ challenge = <<>> /\ answer = NULL
    /\ optionsList = <<>> /\ finalOptions = <<>>
    /\ currentProblem = NULL /\ options = <<>>
    /\ currentGame = "rainbow"
    /\ state = Mounted("rainbow").state
    /\ refs = Mounted("rainbow").refs
    /\ queue = <<>>
    /\ timers = <<>>
    /\ hung = FALSE
    /\ storage = NoStorage
    /\ draws = <<>>

Next ==
    \/ \E g \in GameNames : SetCurrentGame(g)
    \/ MathClickStart
    \/ MathResetButton
    \/ \E correct \in BOOLEAN : MathClickOption(correct)
    \/ MathFeedbackTimeout
    \/ MathUpdate
    \/ MathIdleFrames
    \/ MathCommit
    \/ AdventureClickStart
    \/ AdventureNewButton
    \/ \E correct \in BOOLEAN : AdventureClickOption(correct)
    \/ AdventureFeedbackTimeout
    \/ \E key \in {"left", "right"}, down \in BOOLEAN : AdventureKey(key, down)
    \/ AdventureUpdate
    \/ AdventureIdleFrames
    \/ AdventureCommit
    \/ RainbowClickStart
    \/ RainbowClickPaint
    \/ \E source \in {"button", "space"} : RainbowFire(source)
    \/ \E key \in {"left", "right"}, down \in BOOLEAN : RainbowKey(key, down)
    \/ \E deltaX \in TouchMoves : RainbowTouchMove(deltaX)
    \/ RainbowSpawn
    \/ RainbowTargetTimeout
    \/ RainbowUpdate
    \/ RainbowFall
    \/ RainbowIdleFrames
    \/ RainbowCommit
    \/ BalloonClickStart
    \/ BalloonTogglePause
    \/ BalloonResetGame
    \/ /\ currentGame = "balloon"
       /\ \E source \in {"click", "touch"} :
              \E point \in ClickPoints(refs) : BalloonPop(source, point)
    \/ BalloonSpawn
    \/ BalloonUpdate
    \/ BalloonRise
    \/ BalloonCommit

Spec == Init /\ [][Next]_vars

(***************************************************************************)
(* The sessions' claims                                                    *)
(***************************************************************************)
\* the phase the frame loop, the canvas handlers and the drawing go by
Phase == refs.gameStateRef

Timed == currentGame \in {"math", "adventure", "rainbow"}

Score == IF currentGame = "balloon" THEN refs.scoreRef ELSE state.score

\* a step of startGame: a click on the canvas while waiting or gameOver, or
\* the "Reset Game" / "New Adventure" button
StartClick ==
    \/ MathClickStart \/ MathResetButton
    \/ AdventureClickStart \/ AdventureNewButton
    \/ RainbowClickStart
    \/ BalloonClickStart

PhaseEdges ==
    {<<"waiting", "playing">>, <<"playing", "paused">>, <<"paused", "playing">>,
     <<"playing", "gameOver">>, <<"gameOver", "playing">>}

\* C6: in every game the phase changes only along Waiting->Playing,
\* Playing->Paused, Paused->Playing, Playing->GameOver and GameOver->Playing,
\* and so never back to Waiting.
C6_PhaseEdges ==
    [][currentGame' = currentGame /\ Phase' # Phase
          => <<Phase, Phase'>> \in PhaseEdges]_vars

\* C7: while the phase is Waiting only a start click changes the phase or
\* the score, and while it is GameOver only a restart click changes the
\* phase.
C7_OnlyStartLeaves ==
    [][currentGame' = currentGame /\ ~StartClick
          => /\ Phase = "waiting" => Phase' = Phase /\ Score' = Score
             /\ Phase = "gameOver" => Phase' = Phase]_vars

\* the session fields at their initial values, in Playing
Fresh ==
    /\ Phase = "playing" /\ state.gameState = "playing"
    /\ state.score = 0
    /\ currentGame \in {"math", "adventure"}
          => state.correctStreak = 0 /\ state.maxStreak = 0 /\ state.difficulty = 1
    /\ currentGame = "rainbow" => state.combo = 0 /\ state.maxCombo = 0
    /\ Timed => state.timeLeft = 60 /\ refs.timeLeftRef = GameSeconds
    /\ currentGame = "balloon"
          => /\ refs.scoreRef = 0
             /\ state.lives = 3 /\ refs.livesRef = 3
             /\ refs.balloonsRef = <<>>
             /\ state.combo = 0 /\ refs.comboRef = 0
             /\ state.comboTimer = 0 /\ refs.comboTimerRef = 0
             /\ state.powerUpTimer = 0 /\ refs.powerUpTimerRef = 0
             /\ state.activePowerUp = NULL /\ refs.activePowerUpRef = NULL

C9_GameOverOnlyWhenSpent ==
    Phase = "gameOver"
        => IF Timed THEN NotPositive(refs.timeLeftRef) ELSE refs.livesRef <= 0

\* the update calls that total 60 seconds at 1/60 s a call
TimeoutFrames == (GAME_DURATION \div 1000) * 60

\* C10: in the timed games a session is in GameOver once 3600 update calls
\* have been applied to it, and timeRemaining is never below 0.
C10_TimeoutAt3600 ==
    Timed => /\ refs.timeLeftRef = Countdown[TimeoutFrames + 1] => Phase = "gameOver"
             /\ ~refs.timeLeftRef.neg

\* C11: in Balloon Pop lives stays within 0..5 in every reachable state,
\* however many balloons one click, touch or frame affects.
C11_LivesInRange ==
    currentGame = "balloon" => refs.livesRef \in 0..5 /\ state.lives \in 0..5

\* C12: in Balloon Pop lives <= 0 never coexists with the phase Playing or
\* Paused, also when the pause toggle follows the frame that used the last
\* life.
C12_NoLivesMeansGameOver ==
    currentGame = "balloon" /\ refs.livesRef <= 0 => Phase = "gameOver"

\* a pending timeout that was set before the last startGame.  In Math Master
\* and Adventure Quest difficulty falls only in startGame, so a timeout whose
\* closure holds a higher difficulty than the session's is an earlier
\* session's; in Rainbow Painter update sets a timeout only while no target
\* colour is set and only the timeout or startGame unsets it, so of two
\* pending timeouts the older one is an earlier session's.
Stale ==
    /\ timers # <<>>
    /\ IF currentGame = "rainbow" THEN Len(timers) > 1
       ELSE Head(timers).difficulty > state.difficulty

\* C13: in Math Master, Adventure Quest and Rainbow Painter a timeout set
\* before a restart changes nothing of the restarted session: it neither
\* replaces its challenge, nor generates one at the earlier difficulty, nor
\* clears a target colour chosen after the restart.
C13_StaleTimeoutsChangeNothing ==
    [][Stale /\ (MathFeedbackTimeout \/ AdventureFeedbackTimeout \/ RainbowTargetTimeout)
          => state' = state /\ refs' = refs]_vars

\* C14: in Balloon Pop and Rainbow Painter the spawn interval adds a balloon
\* or a paint blob to the store only while the phase is Playing, and none
\* while it is Waiting, Paused or GameOver.
C14_SpawnOnlyWhilePlaying ==
    [][BalloonSpawn \/ RainbowSpawn => Phase = "playing"]_vars

\* the tier of a score by the thresholds of update
TierOf(score) == IF score >= 30 THEN 3 ELSE IF score >= 15 THEN 2 ELSE 1

\* a frame's calls are rendered: the Commit of an update, or a run of frames
FrameRendered ==
    MathCommit \/ MathIdleFrames \/ AdventureCommit \/ AdventureIdleFrames

\* what a step of Math Master or Adventure Quest does to difficulty
DifficultyStep ==
    /\ state'.difficulty \in 1..3
    /\ ~StartClick => state'.difficulty >= state.difficulty
    /\ FrameRendered /\ Phase' = "playing"
          => state'.difficulty = TierOf(state'.score)

\* C15: in Math Master and Adventure Quest difficulty is always 1, 2 or 3,
\* falls only in a start or restart, and after every frame that leaves the
\* session Playing it is the tier of the score: 3 from 30, 2 from 15, else 1.
C15_DifficultyIsTierOfScore ==
    [][currentGame' = currentGame /\ currentGame \in {"math", "adventure"}
          => DifficultyStep]_vars

\* checkAnswer on the option that equals the answer
CorrectOption == MathClickOption(TRUE) \/ AdventureClickOption(TRUE)

\* the state React would render from the calls a frame has queued
Pending == Render(state, queue)

\* what a step of Math Master or Adventure Quest does to score and streaks
CorrectStep ==
    /\ state'.maxStreak >= state'.correctStreak
    /\ CorrectOption
          => /\ state'.score = Pending.score + 5 * state.difficulty
             /\ state'.correctStreak = Pending.correctStreak + 1
             /\ state'.maxStreak = Max(Pending.maxStreak, state'.correctStreak)

WrongOption == MathClickOption(FALSE) \/ AdventureClickOption(FALSE)

PausedStep ==
    /\ BalloonTogglePause
          => /\ Phase' = "playing"
             /\ refs' = [refs EXCEPT !.gameStateRef = "playing"]
             /\ state' = [state EXCEPT !.gameState = "playing"]
    /\ ~BalloonTogglePause /\ ~BalloonResetGame
          => UNCHANGED <<state, refs, queue>>

\* C18: in Balloon Pop, while the phase is Paused, no balloon moves, is
\* removed or is spawned, score, lives, combo and both timers keep their
\* values, clicks and touches on the canvas are ignored, and only the pause
\* toggle, to Playing, or reset changes the state.
C18_PausedFreezes ==
    [][currentGame' = currentGame /\ currentGame = "balloon" /\ Phase = "paused"
          => PausedStep]_vars

\* C18: a paused session with a balloon on its way up and the combo timer
\* running.
C18_Witness ==
    /\ currentGame = "balloon" /\ Phase = "paused"
    /\ refs.comboTimerRef > 0
    /\ \E i \in DOMAIN refs.balloonsRef :
           ~refs.balloonsRef[i].popped /\ refs.balloonsRef[i].y < SpawnLevel

\* C19: in Rainbow Painter the player's x stays within 0..CANVAS_WIDTH -
\* PLAYER_SIZE in every reachable state, under Playing frames with the left
\* or the right key held and under touch moves.
C19_PlayerInBounds ==
    currentGame = "rainbow" => refs.playerRef.x \in 0..(CANVAS_WIDTH - PLAYER_SIZE)

\* the doubles nearest to 0.55, 0.75, 0.85 and 0.95, and 1, in units of 2^-58
BucketEnds ==
    <<Double(FALSE, 9011, 838860, 3355456), Double(FALSE, 12288, 0, 0),
      Double(FALSE, 13926, 1677721, 2516576), Double(FALSE, 15564, 3355443, 838848),
      Double(FALSE, 2^14, 0, 0)>>

\* the draw r is in the i-th bucket of the claim
InBucket(r, i) ==
    /\ MagnitudeGE(BucketEnds[i], r)
    /\ i = 5 => BucketEnds[i] # r
    /\ i > 1 => ~MagnitudeGE(BucketEnds[i - 1], r)

\* |x - y| <= 2^-53, for doubles x >= 0 and y >= 0
Near(x, y) ==
    LET d == IF MagnitudeGE(x, y) THEN MagnitudeSub(x, y, FALSE)
             ELSE MagnitudeSub(y, x, FALSE)
    IN  d.hi = 0 /\ d.mid = 0 /\ d.lo <= 2^5

\* C21: getRandomBalloonType maps a draw r of [0, 1) to NORMAL for
\* r <= 0.55, BOMB for 0.55 < r <= 0.75, GOLDEN for 0.75 < r <= 0.85, SPEED
\* for 0.85 < r <= 0.95 and LIFE for 0.95 < r < 1; the probabilities sum to
\* 1, so every draw is in exactly one bucket, and the width of each bucket
\* is the declared weight of its kind (to the rounding of a double).
C21_CumulativeBuckets ==
    /\ \A i \in DOMAIN draws :
           /\ Cardinality({k \in 1..5 : InBucket(draws[i].rand, k)}) = 1
           /\ \A k \in 1..5 :
                  InBucket(draws[i].rand, k) => draws[i].type = BalloonOrder[k]
    /\ Cumulative(5) = BucketEnds[5]
    /\ \A k \in 1..5 :
           Near(MagnitudeSub(BucketEnds[k], Cumulative(k - 1), FALSE),
                Probability(BalloonOrder[k]))

\* C21: two calls, one with the draw 0.75, the upper end of the BOMB bucket,
\* and one with the largest double below 1, in the LIFE bucket.
C21_Witness ==
    /\ Len(draws) = 2
    /\ draws[1] = [rand |-> BucketEnds[2], type |-> "BOMB"]
    /\ draws[2] = [rand |-> Below(BucketEnds[5]), type |-> "LIFE"]

\* y + BALLOON_RADIUS of the i-th balloon of the store after the frame that
\* starts here, in tenths of a pixel
TopAfterFrame(i) ==
    LET b == refs.balloonsRef[i]
    IN  b.y - Rise(BalloonTimers(refs).refs, b) + BALLOON_RADIUS * 10

\* the unpopped balloons of kinds other than BOMB that the frame takes above
\* the top, and those it takes to the top within the rounding of their speed
Escaping == {i \in DOMAIN refs.balloonsRef :
                LET b == refs.balloonsRef[i]
                IN  ~b.popped /\ b.type # "BOMB" /\ TopAfterFrame(i) < 0}
MayEscape == {i \in DOMAIN refs.balloonsRef :
                 LET b == refs.balloonsRef[i]
                 IN  ~b.popped /\ b.type # "BOMB" /\ Inexact(b.type)
                        /\ TopAfterFrame(i) = 0}

\* what a frame of Balloon Pop does to the lives and to the store
EscapeStep ==
    /\ \A i \in DOMAIN refs'.balloonsRef :
           LET b == refs'.balloonsRef[i]
           IN  ~b.popped /\ b.y + BALLOON_RADIUS * 10 >= 0
    /\ BalloonRise => refs'.livesRef = refs.livesRef
    /\ BalloonUpdate
          => /\ refs.livesRef - refs'.livesRef >= Cardinality(Escaping)
             /\ refs.livesRef - refs'.livesRef <= Cardinality(Escaping \cup MayEscape)

\* C22: in Balloon Pop an unpopped balloon whose y + 30 drops below 0 in a
\* Playing frame is removed from the store in that frame and costs exactly
\* one life unless its kind is BOMB, which costs none; no balloon costs a
\* life twice, and a balloon popped by a click costs none by escaping.
C22_EscapeCostsOneLife ==
    [][BalloonUpdate \/ BalloonRise => EscapeStep]_vars

\* C22: the frame in which the first balloon of a session, not a bomb, has
\* escaped: a life is taken, the store is empty again.
C22_Witness ==
    /\ currentGame = "balloon" /\ refs.scoreRef = 0
    /\ refs.livesRef = INITIAL_LIVES - 1
    /\ refs.balloonsRef = <<>>
    /\ queue = <<Set("lives", INITIAL_LIVES - 1)>>

\* a timer of Balloon Pop after frames Playing frames
Lowered(timer, frames) == IF timer > 0 THEN timer - 16 * frames ELSE timer

\* the timers, the combo and the power-up over the frames of one step
TimerStep ==
    /\ BalloonUpdate
          => /\ refs'.comboTimerRef = Lowered(refs.comboTimerRef, 1)
             /\ refs'.powerUpTimerRef = Lowered(refs.powerUpTimerRef, 1)
             /\ refs'.comboRef = IF refs'.comboTimerRef <= 0 THEN 0 ELSE refs.comboRef
             /\ refs'.activePowerUpRef =
                   IF refs'.powerUpTimerRef <= 0 THEN NULL ELSE refs.activePowerUpRef
    /\ BalloonRise
          => /\ \E frames \in 1..(5000 \div 16) :
                    /\ refs'.comboTimerRef = Lowered(refs.comboTimerRef, frames)
                    /\ refs'.powerUpTimerRef = Lowered(refs.powerUpTimerRef, frames)
             /\ refs.comboTimerRef > 0 => refs'.comboTimerRef > 0
             /\ refs.powerUpTimerRef > 0 => refs'.powerUpTimerRef > 0
             /\ refs'.comboRef = refs.comboRef
             /\ refs'.activePowerUpRef = refs.activePowerUpRef

\* a combo is running only on a running combo timer, the power-up is on
\* exactly while its timer runs
TimersGuard ==
    /\ refs.comboRef > 0 => refs.comboTimerRef > 0
    /\ refs.activePowerUpRef = "SPEED" <=> refs.powerUpTimerRef > 0
    /\ state.activePowerUp = "SPEED" <=> state.powerUpTimer > 0

\* C23: in Balloon Pop each Playing frame lowers a positive combo timer and
\* a positive power-up timer by 16; a combo timer that is <= 0 after the
\* frame leaves the combo 0, a power-up timer that is <= 0 leaves no
\* power-up; so at all times combo > 0 implies comboTimer > 0 and the SPEED
\* power-up is active exactly when powerUpTimer > 0.
C23_TimersGuardComboAndPowerUp ==
    /\ [](currentGame = "balloon" => TimersGuard)
    /\ [][TimerStep]_vars

\* C23: both timers have run out after a pop of a SPEED balloon: the combo
\* is back to 0 and no power-up is left.
C23_Witness ==
    /\ currentGame = "balloon" /\ refs.scoreRef > 0
    /\ refs.comboTimerRef <= 0 /\ refs.comboRef = 0
    /\ refs.powerUpTimerRef < 0 /\ refs.activePowerUpRef = NULL

(***************************************************************************)
(* Math Master and Adventure Quest: the best scores.  Both components keep *)
(* them with the same two effects and the same handler; the session is     *)
(* reduced here to what these read: gameState, score and highScores.       *)
(* A text is a sequence of characters; storage holds under a key <<>> for  *)
(* no item and <<text>> for an item.                                       *)
(***************************************************************************)
ScoreGames == {"math", "adventure"}

ScoresKey(g) ==
    IF g = "math" THEN "mathMasterHighScores" ELSE "adventureQuestHighScores"

DigitChars == <<"0", "1", "2", "3", "4", "5", "6", "7", "8", "9">>

\* the decimal text of a natural number
RECURSIVE NumberText(_)
NumberText(n) ==
    IF n < 10 THEN <<DigitChars[n + 1]>>
    ELSE NumberText(n \div 10) \o <<DigitChars[(n % 10) + 1]>>

RECURSIVE Joined(_)
Joined(list) ==
    IF list = <<>> THEN <<>>
    ELSE IF Len(list) = 1 THEN NumberText(list[1])
    ELSE NumberText(Head(list)) \o <<",">> \o Joined(Tail(list))

\* JSON.stringify of a number[] of natural numbers
JSONstringify(list) == <<"[">> \o Joined(list) \o <<"]">>

IsNumberText(t) ==
    /\ t # <<>>
    /\ \A i \in DOMAIN t : \E d \in DOMAIN DigitChars : DigitChars[d] = t[i]
    /\ Len(t) > 1 => t[1] # "0"

RECURSIVE NumberValue(_)
NumberValue(t) ==
    IF t = <<>> THEN 0
    ELSE 10 * NumberValue(SubSeq(t, 1, Len(t) - 1))
            + (CHOOSE d \in DOMAIN DigitChars : DigitChars[d] = t[Len(t)]) - 1

\* the pieces of a text between its commas
RECURSIVE TextItems(_)
TextItems(t) ==
    LET commas == {i \in DOMAIN t : t[i] = ","}
    IN  IF commas = {} THEN <<t>>
        ELSE LET i == CHOOSE c \in commas : \A d \in commas : c <= d
             IN  <<SubSeq(t, 1, i - 1)>> \o TextItems(SubSeq(t, i + 1, Len(t)))

\* JSON.parse of a text of digits, commas and brackets without nested
\* arrays: a number, an array of numbers, or a SyntaxError
JSONparse(t) ==
    IF IsNumberText(t) THEN [kind |-> "number", value |-> NumberValue(t)]
    ELSE IF Len(t) >= 2 /\ t[1] = "[" /\ t[Len(t)] = "]"
    THEN LET items == TextItems(SubSeq(t, 2, Len(t) - 1))
         IN  IF Len(t) = 2 THEN [kind |-> "array", value |-> <<>>]
             ELSE IF \A i \in DOMAIN items : IsNumberText(items[i])
             THEN [kind |-> "array",
                   value |-> [i \in DOMAIN items |-> NumberValue(items[i])]]
             ELSE [kind |-> "SyntaxError"]
    ELSE [kind |-> "SyntaxError"]

\* list.sort((a, b) => b - a)
RECURSIVE SortDescending(_)
SortDescending(list) ==
    IF list = <<>> THEN <<>>
    ELSE LET i == CHOOSE j \in DOMAIN list :
                      /\ \A k \in DOMAIN list : list[k] <= list[j]
                      /\ \A k \in 1..(j - 1) : list[k] < list[j]
         IN  <<list[i]>> \o SortDescending(SubSeq(list, 1, i - 1)
                                              \o SubSeq(list, i + 1, Len(list)))

\* list.slice(0, n)
Slice(list, n) == SubSeq(list, 1, Min(n, Len(list)))

\* the score a session of the reduced model may reach
MaxFinalScore == 15

\* the lists a component has left in storage in earlier visits
StoredLists == {<<15, 5>>, <<15, 15, 10, 10, 5>>}

\* the items found under the key of a component when the page is opened:
\* none, the lists of earlier visits, and texts that are no JSON: the empty
\* text, a cut-off list and a list with a trailing comma
StoredItems ==
    {<<>>, << <<>> >>, << <<"[", "5">> >>, << <<"[", "5", ",", "]">> >>}
        \cup {<<JSONstringify(list)>> : list \in StoredLists}

\* the useState initial values the effects read
ScoresState == [gameState |-> "waiting", score |-> 0, highScores |-> <<>>]

\* the effect that loads the best scores, run once after the first render
LoadEffect(stor, g) ==
    LET item == stor[ScoresKey(g)]
    IN  IF item = <<>> \/ item[1] = <<>> THEN [error |-> FALSE, calls |-> <<>>]
        ELSE LET parsed == JSONparse(item[1])
             IN  IF parsed.kind = "SyntaxError" THEN [error |-> TRUE, calls |-> <<>>]
                 ELSE [error |-> FALSE, calls |-> <<Set("highScores", parsed.value)>>]

\* the list the save effect makes of the rendered list and score
NewHighScores(s) == Slice(SortDescending(Append(s.highScores, s.score)), 5)

\* the effect that saves the score of a finished game, on the render s
SaveEffect(s, stor, g) ==
    IF s.gameState = "gameOver" /\ s.score > 0
    THEN [calls |-> <<Set("highScores", NewHighScores(s))>>,
          storage |-> [stor EXCEPT ![ScoresKey(g)] = <<JSONstringify(NewHighScores(s))>>]]
    ELSE [calls |-> <<>>, storage |-> stor]

\* React renders the queued calls and updates, then runs the save effect if
\* one of gameState, score, highScores has changed (a list that was set is
\* a new array, so it has); stor is the storage the handler leaves
ScoresRender(updates, stor) ==
    LET calls == queue \o updates
        rendered == Render(state, calls)
        changed == \/ rendered.gameState # state.gameState
                   \/ rendered.score # state.score
                   \/ \E i \in DOMAIN calls : calls[i].hook = "highScores"
        saved == IF changed THEN SaveEffect(rendered, stor, currentGame)
                 ELSE [calls |-> <<>>, storage |-> stor]
    IN  /\ state' = rendered
        /\ queue' = saved.calls
        /\ storage' = saved.storage

\* the component of g is mounted and its effects run; an error thrown by
\* an effect unmounts the whole tree, App has no error boundary
ScoresMount(g) ==
    /\ currentGame \notin {g, NULL}
    /\ LET loaded == LoadEffect(storage, g)
       IN  IF loaded.error
           THEN currentGame' = NULL /\ state' = NULL /\ queue' = <<>>
           ELSE currentGame' = g /\ state' = ScoresState /\ queue' = loaded.calls
    /\ refs' = NULL /\ timers' = <<>>
    /\ UNCHANGED <<genVars, storage, draws, hung>>

ScoresCommit ==
    /\ currentGame \in ScoreGames
    /\ queue # <<>>
    /\ ScoresRender(<<>>, storage)
    /\ UNCHANGED <<genVars, draws, currentGame, refs, timers, hung>>

\* startGame, of what the effects read
ScoresStartGame ==
    /\ currentGame \in ScoreGames
    /\ ScoresRender(<<Set("score", 0), Set("gameState", "playing")>>, storage)
    /\ UNCHANGED <<genVars, draws, currentGame, refs, timers, hung>>

\* checkAnswer on the correct option, of what the effects read; the click
\* handler does not get to it once update has ended the game
ScoresCheckAnswer ==
    /\ currentGame \in ScoreGames
    /\ Render(state, queue).gameState = "playing"
    /\ \E difficulty \in 1..TierOf(state.score) :
           /\ state.score + 5 * difficulty <= MaxFinalScore
           /\ ScoresRender(<<Add("score", 5 * difficulty)>>, storage)
    /\ UNCHANGED <<genVars, draws, currentGame, refs, timers, hung>>

\* update at the end of the time, of what the effects read
ScoresTimeUp ==
    /\ currentGame \in ScoreGames
    /\ state.gameState = "playing"
    /\ queue = <<>>
    /\ queue' = <<Set("gameState", "gameOver")>>
    /\ UNCHANGED <<genVars, storage, draws, currentGame, state, refs, timers, hung>>

\* resetHighScores, by the Clear Scores button of a list that is not empty
ScoresResetHighScores ==
    /\ currentGame \in ScoreGames
    /\ state.highScores # <<>>
    /\ ScoresRender(<<Set("highScores", <<>>)>>,
                    [storage EXCEPT ![ScoresKey(currentGame)] = <<>>])
    /\ UNCHANGED <<genVars, draws, currentGame, refs, timers, hung>>

\* the page is opened on what earlier visits have left in storage
ScoresInit ==
    /\ gen = NULL /\ tier = 0 /\ pc = "idle"
    /\ num1 = 0 /\ num2 = 0 /\ operator = NULL
    /\ challenge = <<>> /\ answer = NULL
    /\ optionsList = <<>> /\ finalOptions = <<>>
    /\ currentProblem = NULL /\ options = <<>>
    /\ currentGame = "rainbow"
    /\ state = Mounted("rainbow").state
    /\ refs = Mounted("rainbow").refs
    /\ queue = <<>> /\ timers = <<>> /\ hung = FALSE
    /\ draws = <<>>
    /\ storage \in [StorageKeys -> StoredItems]
    /\ storage["balloon-highScore"] = <<>>

ScoresNext ==
    \/ \E g \in ScoreGames : ScoresMount(g)
    \/ ScoresCommit
    \/ ScoresStartGame
    \/ ScoresCheckAnswer
    \/ ScoresTimeUp
    \/ ScoresResetHighScores

SpecScores == ScoresInit /\ [][ScoresNext]_vars

\* an item that is present and cannot be parsed as a list of numbers
Malformed(item) == item # <<>> /\ JSONparse(item[1]).kind # "array"

MalformedLoad ==
    \A g \in ScoreGames :
        ScoresMount(g) /\ Malformed(storage[ScoresKey(g)])
            => currentGame' = g /\ state' = ScoresState /\ queue' = <<>>

\* C24: loading the best scores of Math Master or Adventure Quest from a
\* persisted value that is present but cannot be parsed as a list of
\* numbers raises no error and leaves the list empty, as if nothing had
\* been stored.
C24_MalformedLoadsEmpty == [][MalformedLoad]_vars

IsDescending(list) == \A i \in 1..(Len(list) - 1) : list[i] >= list[i + 1]

\* the best-scores lists after a step: the rendered one and those set for
\* the next render
ListsAfter ==
    {state'.highScores}
        \cup {queue'[i].arg : i \in {j \in DOMAIN queue' : queue'[j].hook = "highScores"}}

BestScoresStep ==
    /\ \A list \in ListsAfter : IsDescending(list) /\ Len(list) <= 5
    /\ ScoresResetHighScores => ListsAfter = {<<>>}

\* C25: in Math Master and Adventure Quest the best-scores list is, after
\* every change made to it, sorted in descending order and at most 5
\* entries long, and clearing it leaves it empty.
C25_SortedTopFiveAndCleared ==
    [][currentGame' = currentGame /\ currentGame \in ScoreGames => BestScoresStep]_vars

\* the part of C25 on order and length alone
SortedTopFive ==
    [][currentGame' = currentGame /\ currentGame \in ScoreGames
          => \A list \in ListsAfter : IsDescending(list) /\ Len(list) <= 5]_vars

\* the number of copies of v in list
Copies(list, v) == Cardinality({i \in DOMAIN list : list[i] = v})

\* new is old with one copy of score put in, cut to the best five
OneMore(old, new, score) ==
    /\ IsDescending(new)
    /\ Len(new) = Min(5, Len(old) + 1)
    /\ \A i \in DOMAIN new :
           Copies(new, new[i]) <= Copies(old, new[i]) + (IF new[i] = score THEN 1 ELSE 0)

RecordStep ==
    /\ state.gameState # "gameOver" /\ state'.gameState = "gameOver" /\ state'.score > 0
          => /\ Len(queue') = 1 /\ queue'[1].hook = "highScores"
             /\ OneMore(state'.highScores, queue'[1].arg, state'.score)
    /\ state.gameState = "gameOver" /\ state'.gameState = "gameOver"
            /\ ~ScoresResetHighScores
          => /\ queue' = <<>> /\ storage' = storage
             /\ queue = <<>> => state'.highScores = state.highScores

\* C27: a session of Math Master or Adventure Quest that reaches GameOver
\* with score > 0 has its score put into the best-scores list exactly
\* once: while the phase stays GameOver the list gains a single copy of the
\* score however often the component renders, and no further update of the
\* list is triggered.
C27_RecordedOnce ==
    [][currentGame' = currentGame /\ currentGame \in ScoreGames => RecordStep]_vars

\* a selection while the timeout of an earlier selection is still to come
SecondSelection == (CorrectOption \/ WrongOption) /\ timers # <<>>

\* C26: in Math Master and Adventure Quest a challenge is scored at most
\* once: a selection made during the feedback delay of an earlier one,
\* before the challenge is regenerated, changes neither score nor streak
\* and sets no second regeneration.
C26_ScoredOnce ==
    [][SecondSelection
          => /\ state'.score = Pending.score
             /\ state'.correctStreak = Pending.correctStreak
             /\ timers' = timers]_vars

\* the level as the initialisation leaves it
LevelInitialized(s) ==
    /\ s.obstacles = 5
    /\ Len(s.treasures) = 5
    /\ \A i \in DOMAIN s.treasures : ~s.treasures[i].collected
    /\ s.currentChallenge # NoProblem

\* C28: in Adventure Quest a start, a restart or a "New Adventure" reset,
\* also one pressed while Playing, leaves the session Playing with the
\* level initialised for it: 5 obstacles, 5 uncollected treasures, and a
\* challenge.  (A generateChallenge that does not return is left aside.)
C28_StartInitializesLevel ==
    [][(AdventureClickStart \/ AdventureNewButton) /\ ~hung'
          => state'.gameState = "playing" /\ LevelInitialized(state')]_vars

\* the obstacles and the treasures stay the ones of the session: no
\* treasure moves, none goes back to uncollected
TreasuresKept ==
    /\ state'.obstacles = state.obstacles
    /\ Len(state'.treasures) = Len(state.treasures)
    /\ \A i \in DOMAIN state.treasures :
           /\ state'.treasures[i].x = state.treasures[i].x
           /\ state'.treasures[i].y = state.treasures[i].y
           /\ state.treasures[i].collected => state'.treasures[i].collected

\* C29: in Adventure Quest only a start or restart replaces the obstacles
\* and the treasures: within a session a treasure never moves and a
\* collected treasure stays collected, also when the difficulty rises, so
\* that a treasure adds its points to the score at most once a session.
C29_TreasuresOfTheSession ==
    [][currentGame' = currentGame /\ currentGame = "adventure"
            /\ ~(AdventureClickStart \/ AdventureNewButton)
          => TreasuresKept]_vars

(***************************************************************************)
(* Balloon Pop: the high score, followed pop by pop through one click on   *)
(* balloons that lie over each other.                                      *)
(***************************************************************************)
\* Balloons under one click, and the high score earlier visits have left.
MaxStack == 3
MaxStoredHigh == 2

\* parseInt(localStorage.getItem("balloon-highScore") || "0", 10), of an
\* item the component has written
StoredHighScore ==
    LET item == storage["balloon-highScore"]
    IN  IF item = <<>> THEN 0 ELSE NumberValue(item[1])

\* the balloons of a store that lie over each other, oldest first
Stacks ==
    UNION {[1..n -> {[x |-> 200, y |-> 3000, popped |-> FALSE, type |-> t] :
                        t \in BalloonKinds}] : n \in 1..MaxStack}

\* a click lands on a stack of balloons in a session that has just started,
\* in a component mounted with the stored high score
StackInit ==
    /\ gen = NULL /\ tier = 0 /\ pc = "idle"
    /\ num1 = 0 /\ num2 = 0 /\ operator = NULL
    /\ challenge = <<>> /\ answer = NULL
    /\ optionsList = <<>> /\ finalOptions = <<>>
    /\ currentProblem = NULL /\ options = <<>>
    /\ currentGame = "balloon"
    /\ queue = <<>> /\ timers = <<>> /\ hung = FALSE
    /\ draws = <<>>
    /\ \E high \in 0..MaxStoredHigh, balloons \in Stacks :
           /\ storage = [NoStorage EXCEPT !["balloon-highScore"] =
                             IF high = 0 THEN <<>> ELSE <<NumberText(high)>>]
           /\ state = [gameState |-> "playing", score |-> 0, lives |-> INITIAL_LIVES,
                       combo |-> 0, comboTimer |-> 0, activePowerUp |-> NULL,
                       powerUpTimer |-> 0, highScore |-> high]
           /\ refs = [BalloonRefs EXCEPT !.gameStateRef = "playing",
                                         !.balloonsRef = balloons]

\* the forEach of handleCanvasClick gets to the next balloon of the stack:
\* handleBalloonPop with the highScore of the render, and the effect of
\* the balloon's kind
StackPop ==
    /\ \E i \in DOMAIN refs.balloonsRef :
           /\ ~refs.balloonsRef[i].popped
           /\ \A j \in 1..(i - 1) : refs.balloonsRef[j].popped
           /\ LET o == PopBalloon([refs |-> refs, calls |-> queue], i)
                  beaten == o.refs.scoreRef > state.highScore
              IN  /\ refs' = o.refs
                  /\ queue' = o.calls \o (IF beaten
                                          THEN <<Set("highScore", o.refs.scoreRef)>>
                                          ELSE <<>>)
                  /\ storage' = IF beaten
                                THEN [storage EXCEPT !["balloon-highScore"] =
                                         <<NumberText(o.refs.scoreRef)>>]
                                ELSE storage
    /\ UNCHANGED <<genVars, draws, currentGame, state, timers, hung>>

\* the handler has returned: React renders its calls
StackRender ==
    /\ queue # <<>>
    /\ \A i \in DOMAIN refs.balloonsRef : refs.balloonsRef[i].popped
    /\ state' = Render(state, queue)
    /\ queue' = <<>>
    /\ UNCHANGED <<genVars, storage, draws, currentGame, refs, timers, hung>>

StackNext == StackPop \/ StackRender

SpecStack == StackInit /\ [][StackNext]_vars

\* C30: in Balloon Pop the stored high score never decreases and is >= the
\* current score after every pop, also when one click pops several
\* balloons of different kinds (a golden one, then a bomb, then a normal
\* one); the same holds of the high score a render shows.
C30_HighScoreKeeps ==
    [][/\ StackPop => /\ StoredHighScore' >= StoredHighScore
                      /\ StoredHighScore' >= refs'.scoreRef
       /\ StackRender => /\ state'.highScore >= state.highScore
                         /\ state'.highScore >= state'.score]_vars

=============================================================================
